---- MODULE Spec2Model ----
(***************************************************************************)
(* K8sResourceResizer: the recommendation engine (strategies, ensemble,    *)
(* decaying histogram) and the orchestrator ResourceOptimizer.             *)
(*                                                                         *)
(* Numbers.  The program computes on Python/numpy floats.  Here a float is *)
(* a fixed-point integer:                                                  *)
(*   CPU      in millicores           (0.01 core = 10, 64 cores = 64000)    *)
(*   memory   in tenths of a MiB      (32 MiB = 320, 1 GiB = 10240)         *)
(*   ratios   in thousandths          (weights, importance, volatility)    *)
(* Products with a decimal factor round down (x * 1.1 is (x * 11) \div 10).*)
(* The float nan is the value NaN, Python's None is the value None; every  *)
(* comparison with NaN is false, as in IEEE 754.                           *)
(***************************************************************************)
EXTENDS Integers, Sequences, FiniteSets, TLC

\* float('nan') and None, kept apart from every number of the model
NaN == 0 - 1000000000
None == 0 - 1000000001

IsNum(x) == x # NaN /\ x # None

\* a < b on floats: false when either side is nan
Lt(a, b) == a # NaN /\ b # NaN /\ a < b

\* Python's max(a, b): the first argument unless the second is greater
PyMax(a, b) == IF Lt(a, b) THEN b ELSE a

\* Python's min(a, b): the first argument unless the second is smaller
PyMin(a, b) == IF Lt(b, a) THEN b ELSE a

\* x * (num / den) on floats, nan propagating
Scale(x, num, den) == IF x = NaN THEN NaN ELSE (x * num) \div den

Abs(x) == IF x < 0 THEN 0 - x ELSE x

\* v = value; Body(v): the value is computed once, where it is first read
Let(value, Body(_)) == Body(value)

(***************************************************************************)
(* Sequences of numbers                                                    *)
(***************************************************************************)
RECURSIVE SumSeq(_)
SumSeq(s) == IF s = <<>> THEN 0 ELSE Head(s) + SumSeq(Tail(s))

RECURSIVE SumSq(_)
SumSq(s) == IF s = <<>> THEN 0 ELSE Head(s) * Head(s) + SumSq(Tail(s))

RECURSIVE MaxSeq(_)
MaxSeq(s) == IF Len(s) = 1 THEN s[1]
             ELSE Let(MaxSeq(Tail(s)), LAMBDA m : IF Head(s) >= m THEN Head(s) ELSE m)

RECURSIVE Gcd(_, _)
Gcd(a, b) == IF b = 0 THEN a ELSE Gcd(b, a % b)

RECURSIVE GcdSeq(_)
GcdSeq(s) == IF s = <<>> THEN 0 ELSE Gcd(Head(s), GcdSeq(Tail(s)))

\* the last k elements of s: list(s)[-k:]
LastN(s, k) == IF Len(s) <= k THEN s ELSE SubSeq(s, Len(s) - k + 1, Len(s))

\* the first k elements of s: s[:k]
FirstN(s, k) == IF Len(s) <= k THEN s ELSE SubSeq(s, 1, k)

\* floor(sqrt(n))
RECURSIVE ISqrtFrom(_, _)
ISqrtFrom(n, r) == IF (r + 1) * (r + 1) > n THEN r ELSE ISqrtFrom(n, r + 1)
RECURSIVE ISqrt(_)
ISqrt(n) == IF n < 4 THEN ISqrtFrom(n, 0)
            ELSE LET h == 2 * ISqrt(n \div 4) IN ISqrtFrom(n, h)

\* floor(num * 10^digits / den) for 0 <= num, 0 < den, by long division
RECURSIVE FixDiv(_, _, _)
FixDiv(num, den, digits) ==
    IF digits = 0 THEN num \div den
    ELSE (num \div den) * (10 ^ digits) + FixDiv((num % den) * 10, den, digits - 1)

\* the indices of s in ascending order of s[i], ties in index order (the
\* order of np.argsort on the short arrays considered here, and of sorted())
RECURSIVE InsertIdx(_, _, _)
InsertIdx(s, order, i) ==
    IF order = <<>> THEN <<i>>
    ELSE IF s[i] < s[Head(order)] THEN <<i>> \o order
    ELSE <<Head(order)>> \o InsertIdx(s, Tail(order), i)
RECURSIVE ArgSortUpTo(_, _)
ArgSortUpTo(s, k) == IF k = 0 THEN <<>> ELSE InsertIdx(s, ArgSortUpTo(s, k - 1), k)
ArgSort(s) == ArgSortUpTo(s, Len(s))
Sorted(s) == Let(ArgSort(s), LAMBDA o : [i \in 1..Len(s) |-> s[o[i]]])

\* np.percentile(samples, p): linear interpolation at rank (n - 1) * p / 100
Percentile(samples, p) ==
    LET k == (Len(samples) - 1) * p
        lo == k \div 100 + 1
        frac == k % 100
    IN  Let(Sorted(samples), LAMBDA s :
            IF frac = 0 THEN s[lo]
            ELSE s[lo] + ((s[lo + 1] - s[lo]) * frac) \div 100)

\* min(1, stdev(values) / mean(values)) in thousandths, sample deviation
\* (n - 1): stdev^2 / mean^2 = n (n Q - S^2) / ((n - 1) S^2) with S the sum
\* and Q the sum of squares; scale-free, so computed on values / gcd.
\* 0 for mean = 0.  Needs Len(values) >= 2.
VarianceRatio(n, S, Q) == [A |-> n * (n * Q - S * S), B |-> (n - 1) * S * S]
CappedVolatility(values) ==
    Let(GcdSeq(values), LAMBDA g :
    Let([i \in 1..Len(values) |-> IF g = 0 THEN 0 ELSE values[i] \div g], LAMBDA v :
    Let(VarianceRatio(Len(v), SumSeq(v), SumSq(v)), LAMBDA r :
        IF r.B = 0 THEN 0
        ELSE IF r.A >= r.B THEN 1000
        ELSE ISqrt(FixDiv(r.A, r.B, 6)))))

(***************************************************************************)
(* DecayingHistogram (basic_strategy.py).  A stored Sample is              *)
(*   [value, timestamp, logw, importance]                                  *)
(* where logw is ln(weight) in thousandths: the weight exp(-decay * age)   *)
(* spans hundreds of orders of magnitude, its logarithm -decay * age does  *)
(* not.  LogZero is the logarithm of the weight 0.0 that math.exp returns  *)
(* on underflow.  importance and decay_rate are in thousandths.            *)
(***************************************************************************)
LogZero == 0 - 999999999
VolatilityWindow == 100
ImportanceWindow == 10
DecayMin == 10
DecayMax == 500
ExpOverflowAt == 709782
ExpUnderflowAt == 745133
SignificandLog == 36737

Values(samples) == [i \in 1..Len(samples) |-> samples[i].value]

\* DecayingHistogram.__init__
NewHistogram(max_samples, initial_decay_rate) ==
    [samples |-> <<>>, decay_rate |-> initial_decay_rate, max_samples |-> max_samples]

\* _calculate_volatility, capped at 1 (both of its uses cap it lower still)
CalculateVolatility(h) ==
    IF Len(h.samples) < 2 THEN 0
    ELSE CappedVolatility(LastN(Values(h.samples), VolatilityWindow))

\* _update_decay_rate: min(0.5, max(0.01, volatility * 2))
UpdatedDecayRate(h) ==
    Let(2 * CalculateVolatility(h), LAMBDA v2 :
        IF v2 > DecayMax THEN DecayMax ELSE IF v2 < DecayMin THEN DecayMin ELSE v2)

\* _calculate_importance: min(1.0, max(0.1, 2 |value - mean| / mean)) against
\* the mean S / n of the last 10 stored values
CalculateImportance(h, value) ==
    IF h.samples = <<>> THEN 1000
    ELSE Let(LastN(Values(h.samples), ImportanceWindow), LAMBDA recent :
         Let(SumSeq(recent), LAMBDA S :
         Let(Abs(Len(recent) * value - S), LAMBDA d :
             IF S <= 0 THEN 100
             ELSE IF 2 * d >= S THEN 1000
             ELSE IF (2000 * d) \div S < 100 THEN 100
             ELSE (2000 * d) \div S)))

\* deque(maxlen).append: a full deque drops its leftmost element
DequeAppend(samples, sample, maxlen) ==
    IF Len(samples) >= maxlen THEN Tail(samples) \o <<sample>>
    ELSE Append(samples, sample)

\* sorted(samples, key=importance, reverse=True)[:max_samples]
KeepMostImportant(samples, max_samples) ==
    LET o == ArgSort([i \in 1..Len(samples) |-> 0 - samples[i].importance])
    IN  FirstN([i \in 1..Len(samples) |-> samples[o[i]]], max_samples)

\* a list that grows with every sample, in place of the deque and the cut
StoredWithoutBound(h, rate, sample) ==
    [h EXCEPT !.decay_rate = rate, !.samples = Append(h.samples, sample)]
\* add_sample.  The result is [raised, h]: math.exp raises OverflowError
\* above exp(709.78), after _update_decay_rate has already stored the rate.
Stored(h, rate, sample) ==
    Let(DequeAppend(h.samples, sample, h.max_samples), LAMBDA appended :
        [h EXCEPT !.decay_rate = rate,
                  !.samples = IF Len(appended) > h.max_samples
                              THEN KeepMostImportant(appended, h.max_samples)
                              ELSE appended])
Weighted(h, value, timestamp, rate, exponent) ==
    IF h.samples # <<>> /\ exponent > ExpOverflowAt
    THEN [raised |-> TRUE, h |-> [h EXCEPT !.decay_rate = rate]]
    ELSE [raised |-> FALSE,
          h |-> Stored(h, rate,
                       [value |-> value, timestamp |-> timestamp,
                        logw |-> IF h.samples = <<>> THEN 0
                                 ELSE IF exponent < 0 - ExpUnderflowAt THEN LogZero
                                 ELSE exponent,
                        importance |-> CalculateImportance(h, value)])]
AddSample(h, value, timestamp) ==
    Let(UpdatedDecayRate(h), LAMBDA rate :
        Weighted(h, value, timestamp, rate,
                 (0 - rate) * (h.samples[Len(h.samples)].timestamp - timestamp)))

\* for value, timestamp in zip(values, timestamps): add_sample(value, timestamp)
RECURSIVE AddSamples(_, _, _)
AddSamples(h, values, timestamps) ==
    IF values = <<>> \/ timestamps = <<>> THEN [raised |-> FALSE, h |-> h]
    ELSE Let(AddSample(h, Head(values), Head(timestamps)), LAMBDA r :
             IF r.raised THEN r
             ELSE AddSamples(r.h, Tail(values), Tail(timestamps)))

\* exp(x / 1000) in thousandths for x <= 0: e^-k from a table, the fraction
\* by its Taylor polynomial
ExpMilli(x) ==
    LET y == 0 - x
        k == y \div 1000
        f == y % 1000
        ek == IF k > 6 THEN 0 ELSE <<1000, 368, 135, 50, 18, 7, 2>>[k + 1]
        ef == 1000 - f + (f * f) \div 2000 - (f * f * f) \div 6000000
                   + (((f * f) \div 1000) * ((f * f) \div 1000)) \div 24000
    IN  (ek * ef) \div 1000

\* _get_weights: weight * importance, normalised to sum 1 when the sum is
\* positive; relative to the largest weight, which the normalisation cancels.
\* A double carries 53 significant bits: a weight below 2^-53 of the largest
\* (ln 2^-53 = -36.737) adds nothing to a running sum that has reached the
\* largest, any other positive weight does.  So a weight is 0 here when it
\* is lost in that way, at least one unit otherwise, and the first of the
\* largest weights takes what the others leave of 1.
RelativeWeights(samples, top) ==
    [i \in 1..Len(samples) |->
        IF samples[i].logw = LogZero \/ samples[i].logw - top < 0 - SignificandLog
        THEN 0
        ELSE PyMax(1, ExpMilli(samples[i].logw - top) * samples[i].importance)]
Shares(rel, total) ==
    [i \in 1..Len(rel) |-> IF rel[i] = 0 THEN 0 ELSE PyMax(1, (rel[i] * 1000) \div total)]
Normalised(rel, shares, largest) ==
    [i \in 1..Len(rel) |->
        IF i = largest THEN shares[i] + 1000 - SumSeq(shares) ELSE shares[i]]
GetWeights(h) ==
    Let({h.samples[i].logw : i \in 1..Len(h.samples)} \ {LogZero}, LAMBDA finite :
        IF finite = {} THEN [i \in 1..Len(h.samples) |-> 0]
        ELSE Let(RelativeWeights(h.samples, CHOOSE m \in finite : \A l \in finite : l <= m),
                 LAMBDA rel :
                    Normalised(rel, Shares(rel, SumSeq(rel)),
                               CHOOSE i \in 1..Len(rel) :
                                   /\ \A j \in 1..Len(rel) : rel[j] <= rel[i]
                                   /\ \A j \in 1..(i - 1) : rel[j] < rel[i])))

RECURSIVE CumSum(_)
CumSum(s) == IF s = <<>> THEN <<>>
             ELSE Let(CumSum(FirstN(s, Len(s) - 1)), LAMBDA c :
                      IF c = <<>> THEN <<s[1]>> ELSE Append(c, c[Len(c)] + s[Len(s)]))

\* np.searchsorted(a, q): the number of elements of a below q
SearchSorted(a, q) == Cardinality({i \in 1..Len(a) : a[i] < q})

\* get_quantile(q), q in thousandths
QuantileAt(q, sorted_samples, cum_weights, idx) ==
    IF idx = 0 THEN sorted_samples[1]
    ELSE IF idx = Len(sorted_samples) THEN sorted_samples[idx]
    ELSE LET weight_below == cum_weights[idx]
             weight_above == cum_weights[idx + 1]
             sample_below == sorted_samples[idx]
             sample_above == sorted_samples[idx + 1]
         IN  IF weight_above = weight_below THEN sample_below
             ELSE sample_below
                  + ((q - weight_below) * (sample_above - sample_below))
                    \div (weight_above - weight_below)
GetQuantile(h, q) ==
    IF h.samples = <<>> THEN 0
    ELSE Let(Values(h.samples), LAMBDA vals :
         Let(ArgSort(vals), LAMBDA o :
         Let(GetWeights(h), LAMBDA weights :
         Let(CumSum([i \in 1..Len(vals) |-> weights[o[i]]]), LAMBDA cum_weights :
             QuantileAt(q, [i \in 1..Len(vals) |-> vals[o[i]]], cum_weights,
                        SearchSorted(cum_weights, q))))))

(***************************************************************************)
(* RecommendationConfig (strategy/__init__.py) with its defaults:          *)
(* 0.01 core, 100 MiB, buffer 1.15 (in hundredths), percentile 95,         *)
(* business hours [9, 17) on Monday..Friday, thresholds in thousandths.    *)
(***************************************************************************)
RecommendationConfig(strategy) ==
    [strategy |-> strategy,
     cpu_percentile |-> 95,
     memory_buffer |-> 115,
     min_cpu_cores |-> 10,
     min_memory_bytes |-> 1000,
     business_hours_start |-> 9,
     business_hours_end |-> 17,
     business_days |-> {0, 1, 2, 3, 4},
     trend_threshold |-> 100,
     high_variance_threshold |-> 500,
     history_window_hours |-> 24]

\* the configured minimum of a dimension ("cpu" or "memory")
ConfigMin(cfg, dim) == IF dim = "cpu" THEN cfg.min_cpu_cores ELSE cfg.min_memory_bytes

\* the safety factor the strategies apply last, in hundredths: 1.1 for CPU,
\* memory_buffer for memory
SafetyFactor(cfg, dim) == IF dim = "cpu" THEN 110 ELSE cfg.memory_buffer

\* what a call returns: a value, or an exception leaving the call
Returned(v) == [raised |-> FALSE, value |-> v]
Raised == [raised |-> TRUE, value |-> None]

(***************************************************************************)
(* BasicStrategy (basic_strategy.py)                                       *)
(***************************************************************************)
\* _calculate_data_quality, in thousandths.  statistics.stdev raises on
\* fewer than two values; it is only evaluated when the mean is positive.
DataQualityRaises(samples) ==
    SumSeq(Values(samples)) > 0 /\ Len(samples) < 2
CalculateDataQuality(samples, max_samples) ==
    LET n == Len(samples)
        volatility == IF SumSeq(Values(samples)) > 0
                      THEN CappedVolatility(Values(samples)) ELSE 0
        coverage == (n * 1000) \div max_samples
        importance == SumSeq([i \in 1..n |-> samples[i].importance]) \div n
    IN  Let(((1000 - volatility) * 4 + coverage * 3 + importance * 3) \div 10,
            LAMBDA quality :
                IF quality < 100 THEN 100 ELSE IF quality > 1000 THEN 1000 ELSE quality)

\* a fixed margin of 1.10 in place of the confidence factor
ConfidenceFixedMargin(samples, max_samples) == 1100
\* _get_confidence_factor: max(1.05, 1.15 * (1 - quality * 0.5)), thousandths
GetConfidenceFactor(samples, max_samples) ==
    IF samples = <<>> THEN 1150
    ELSE Let((1150 * (1000 - CalculateDataQuality(samples, max_samples) \div 2)) \div 1000,
             LAMBDA margin : IF margin < 1050 THEN 1050 ELSE margin)

\* p95 / p90 > 1.5 on numpy floats: x / 0 is inf for x > 0 and nan for x = 0
RatioAbove(num, den, timesTen) ==
    IF den = 0 THEN num > 0 ELSE 10 * num > timesTen * den

\* calculate_cpu_request / calculate_memory_request of BasicStrategy on the
\* histogram h of the dimension: [raised, value, h], h the histogram after
\* the call.  coverage always reads cpu_histogram.max_samples.
BasicBase(p90, p95) == IF RatioAbove(p95, p90, 15) THEN p90 ELSE p95
BasicValue(cfg, dim, h, cpu_max_samples) ==
    Let((BasicBase(GetQuantile(h, 900), GetQuantile(h, 950))
            * GetConfidenceFactor(h.samples, cpu_max_samples)) \div 1000,
        LAMBDA with_confidence :
            PyMax(IF dim = "cpu" THEN with_confidence
                  ELSE (with_confidence * cfg.memory_buffer) \div 100,
                  ConfigMin(cfg, dim)))
BasicOutcome(cfg, dim, cpu_max_samples, added) ==
    IF added.raised \/ DataQualityRaises(added.h.samples)
    THEN [raised |-> TRUE, value |-> None, h |-> added.h]
    ELSE [raised |-> FALSE, value |-> BasicValue(cfg, dim, added.h, cpu_max_samples),
          h |-> added.h]
BasicCalculate(cfg, dim, h, cpu_max_samples, samples, timestamps) ==
    IF samples = <<>> \/ timestamps = <<>>
    THEN [raised |-> FALSE, value |-> ConfigMin(cfg, dim), h |-> h]
    ELSE BasicOutcome(cfg, dim, cpu_max_samples, AddSamples(h, samples, timestamps))

(***************************************************************************)
(* pandas / numpy statistics used by the other strategies                  *)
(***************************************************************************)
\* the standard deviation in tenths of a unit, over n - ddof (pandas .std()
\* has ddof 1, np.std has ddof 0); NaN when n - ddof <= 0.  Computed on
\* values / gcd: sqrt((n Q - S^2) / (n (n - ddof))).
StdTenthsOf(g, v, S, ddof) ==
    g * ISqrt(FixDiv(Len(v) * SumSq(v) - S * S, Len(v) * (Len(v) - ddof), 2))
StdTenths(values, ddof) ==
    IF Len(values) - ddof <= 0 THEN NaN
    ELSE Let(GcdSeq(values), LAMBDA g :
         Let([i \in 1..Len(values) |-> IF g = 0 THEN 0 ELSE values[i] \div g], LAMBDA v :
             StdTenthsOf(g, v, SumSeq(v), ddof)))

\* series.rolling(window, min_periods=1): the window ending at row i
RollingWindow(values, i, window) ==
    SubSeq(values, IF i > window THEN i - window + 1 ELSE 1, i)

\* the least-squares slope of y over x = 0..n-1 as a fraction [num, den]:
\* np.polyfit(x, y, 1)[0] = (n Sxy - Sx Sy) / (n Sxx - Sx^2)
Slope(n, Sx, Sxx, Sxy, Sy) == [num |-> n * Sxy - Sx * Sy, den |-> n * Sxx - Sx * Sx]
PolyfitSlope(y) ==
    Slope(Len(y),
          SumSeq([i \in 1..Len(y) |-> i - 1]),
          SumSeq([i \in 1..Len(y) |-> (i - 1) * (i - 1)]),
          SumSeq([i \in 1..Len(y) |-> (i - 1) * y[i]]),
          SumSeq(y))

\* hour of day and day of week (Monday = 0) of an epoch second; the epoch
\* began on a Thursday
HourOf(t) == (t \div 3600) % 24
DayOfWeek(t) == ((t \div 86400) + 3) % 7

\* tz_convert('Europe/Berlin'): the timestamps of the model are in winter
\* time (UTC+1)
ToBerlin(t) == t + 3600

\* df[mask]: the rows of a column whose mask entry is true
RECURSIVE SelectRows(_, _)
SelectRows(values, mask) ==
    IF values = <<>> THEN <<>>
    ELSE IF Head(mask) THEN <<Head(values)>> \o SelectRows(Tail(values), Tail(mask))
    ELSE SelectRows(Tail(values), Tail(mask))

(***************************************************************************)
(* TimeAwareStrategy (time_aware_strategy.py)                              *)
(***************************************************************************)
\* the business-hours mask: start <= hour < end on a business day, local time
InBusinessHours(cfg, t) ==
    /\ HourOf(ToBerlin(t)) >= cfg.business_hours_start
    /\ HourOf(ToBerlin(t)) < cfg.business_hours_end
    /\ DayOfWeek(ToBerlin(t)) \in cfg.business_days

\* _analyze_time_patterns.  business_diff_ratio > 0.2 is decided on the
\* cross product of |Sb/nb - Sn/nn| / (S/n) > 1/5; an empty bucket has mean 0.
BucketDiff(business_hours, non_business) ==
    IF business_hours = <<>>
    THEN [num |-> SumSeq(non_business), den |-> Len(non_business)]
    ELSE IF non_business = <<>>
    THEN [num |-> SumSeq(business_hours), den |-> Len(business_hours)]
    ELSE [num |-> Abs(SumSeq(business_hours) * Len(non_business)
                      - SumSeq(non_business) * Len(business_hours)),
          den |-> Len(business_hours) * Len(non_business)]
Significant(n, S, diff) == S # 0 /\ 5 * n * diff.num > S * diff.den
TimeAwareBuckets(samples, business_hours, non_business) ==
    [business_hours |-> business_hours,
     non_business |-> non_business,
     business_hours_p95 |-> IF business_hours = <<>> THEN 0
                            ELSE Percentile(business_hours, 95),
     business_hours_peak |-> IF business_hours = <<>> THEN 0 ELSE MaxSeq(business_hours),
     overall_p95 |-> Percentile(samples, 95),
     overall_peak |-> MaxSeq(samples),
     significant |-> Significant(Len(samples), SumSeq(samples),
                                 BucketDiff(business_hours, non_business))]
TimeAwarePatterns(cfg, samples, timestamps) ==
    Let([i \in 1..Len(timestamps) |-> InBusinessHours(cfg, timestamps[i])], LAMBDA mask :
        TimeAwareBuckets(samples, SelectRows(samples, mask),
                         SelectRows(samples, [i \in 1..Len(mask) |-> ~mask[i]])))

\* calculate_cpu_request / calculate_memory_request of TimeAwareStrategy;
\* pd.DataFrame raises on columns of different lengths
TimeAwareBase(dim, patterns) ==
    IF dim = "cpu"
    THEN IF patterns.significant /\ patterns.business_hours_p95 > 0
         THEN patterns.business_hours_p95 ELSE patterns.overall_p95
    ELSE IF patterns.significant /\ patterns.business_hours_peak > 0
         THEN patterns.business_hours_peak ELSE patterns.overall_peak
TimeAwareCalculate(cfg, dim, samples, timestamps) ==
    IF samples = <<>> \/ timestamps = <<>> THEN Returned(ConfigMin(cfg, dim))
    ELSE IF Len(samples) # Len(timestamps) THEN Raised
    ELSE Returned(PyMax((TimeAwareBase(dim, TimeAwarePatterns(cfg, samples, timestamps))
                            * SafetyFactor(cfg, dim)) \div 100,
                        ConfigMin(cfg, dim)))

(***************************************************************************)
(* TrendAwareStrategy (trend_aware_strategy.py)                            *)
(***************************************************************************)
\* samples / gcd: growth rate, volatility and spike rate are scale-free
Reduced(samples) ==
    Let(GcdSeq(samples), LAMBDA g :
        [i \in 1..Len(samples) |-> IF g = 0 THEN 0 ELSE samples[i] \div g])

\* 60 * rolling(window=6, min_periods=1).mean(): 60 is divisible by every
\* window length 1..6
RollingMean60(values) ==
    [i \in 1..Len(values) |->
        Let(RollingWindow(values, i, 6), LAMBDA w : SumSeq(w) * (60 \div Len(w)))]

\* _analyze_trends: growth_rate = slope * n / mean in millionths, with
\* mean = S / n and slope fitted on the rolling mean; volatility = std / mean
SignedFixDiv(num, den, digits) ==
    IF num >= 0 THEN FixDiv(num, den, digits) ELSE 0 - FixDiv(0 - num, den, digits)
TrendOfGrowthFirst(cfg, volatility, growth) ==
    [trend |-> IF growth > cfg.trend_threshold * 1000 THEN "increasing"
               ELSE IF volatility > cfg.high_variance_threshold THEN "volatile"
               ELSE IF growth < 0 - cfg.trend_threshold * 1000 THEN "decreasing"
               ELSE "stable",
     growth_rate |-> growth]
TrendOf(cfg, volatility, growth) ==
    [trend |-> IF volatility > cfg.high_variance_threshold THEN "volatile"
               ELSE IF growth > cfg.trend_threshold * 1000 THEN "increasing"
               ELSE IF growth < 0 - cfg.trend_threshold * 1000 THEN "decreasing"
               ELSE "stable",
     growth_rate |-> growth]
TrendGrowth(n, S, slope) ==
    IF S = 0 THEN 0 ELSE SignedFixDiv(slope.num * n * n, slope.den * 60 * S, 6)
TrendAnalyze(cfg, samples, timestamps) ==
    IF Len(samples) < 2 \/ timestamps = <<>> THEN [trend |-> "stable", growth_rate |-> 0]
    ELSE Let(Reduced(samples), LAMBDA v :
             TrendOf(cfg, CappedVolatility(v),
                     TrendGrowth(Len(v), SumSeq(v), PolyfitSlope(RollingMean60(v)))))

\* calculate_cpu_request / calculate_memory_request of TrendAwareStrategy
TrendAwareValue(cfg, dim, analysis, base_value) ==
    IF dim = "cpu"
    THEN IF analysis.trend = "increasing"
         THEN (base_value * (1000 + ((analysis.growth_rate \div 1000) * 12) \div 10))
              \div 1000
         ELSE IF analysis.trend = "volatile" THEN (base_value * 12) \div 10
         ELSE (base_value * 11) \div 10
    ELSE IF analysis.trend = "increasing"
         THEN (((base_value * (1000 + ((analysis.growth_rate \div 1000) * 15) \div 10))
                \div 1000) * cfg.memory_buffer) \div 100
         ELSE IF analysis.trend = "volatile"
         THEN (((base_value * 13) \div 10) * cfg.memory_buffer) \div 100
         ELSE (base_value * cfg.memory_buffer) \div 100
TrendAwareCalculate(cfg, dim, samples, timestamps) ==
    IF samples = <<>> \/ timestamps = <<>> THEN Returned(ConfigMin(cfg, dim))
    ELSE IF Len(samples) >= 2 /\ Len(samples) # Len(timestamps) THEN Raised
    ELSE Returned(PyMax(TrendAwareValue(cfg, dim, TrendAnalyze(cfg, samples, timestamps),
                                        IF dim = "cpu"
                                        THEN Percentile(samples, cfg.cpu_percentile)
                                        ELSE MaxSeq(samples)),
                        ConfigMin(cfg, dim)))

(***************************************************************************)
(* WorkloadAwareStrategy (workload_aware_strategy.py)                      *)
(***************************************************************************)
\* _detect_workload_type.  With timestamps: mean = mean of the rolling
\* means, std = mean of the rolling deviations (the first row's is NaN and
\* skipped), cv = std / mean, spikes = share of values above mean + 2 std.
\* Without: cv = np.std / np.mean.  Comparisons are on cross products;
\* with a single row std is NaN and every comparison is false.
CvAbove(n, mean60n, std10, th) ==
    n >= 2 /\ mean60n # 0 /\ std10 * 6000 * n > th * mean60n
Spikes(v, mean60n, std10) ==
    IF Len(v) < 2 THEN 0
    ELSE Cardinality({i \in 1..Len(v) :
            600 * Len(v) * v[i] > 10 * mean60n + 120 * Len(v) * std10})
RollingStd10(v) ==
    IF Len(v) < 2 THEN NaN
    ELSE SumSeq([i \in 1..(Len(v) - 1) |-> StdTenths(RollingWindow(v, i + 1, 6), 1)])
         \div (Len(v) - 1)
RollingType(cfg, n, mean60n, std10, spikes) ==
    IF CvAbove(n, mean60n, std10, cfg.high_variance_threshold) \/ 10 * spikes > n
    THEN "intensive"
    ELSE IF CvAbove(n, mean60n, std10, cfg.high_variance_threshold \div 2)
            \/ 20 * spikes > n
    THEN "moderate"
    ELSE "stable"
RollingStats(cfg, v, mean60n, std10) ==
    RollingType(cfg, Len(v), mean60n, std10, Spikes(v, mean60n, std10))
FlatCvAbove(n, S, flat10, th) == S # 0 /\ flat10 * 100 * n > th * S
FlatType(cfg, n, S, flat10) ==
    IF FlatCvAbove(n, S, flat10, cfg.high_variance_threshold) THEN "intensive"
    ELSE IF FlatCvAbove(n, S, flat10, cfg.high_variance_threshold \div 2) THEN "moderate"
    ELSE "stable"
DetectWorkloadType(cfg, samples, timestamps) ==
    Let(Reduced(samples), LAMBDA v :
        IF timestamps # <<>>
        THEN RollingStats(cfg, v, SumSeq(RollingMean60(v)), RollingStd10(v))
        ELSE FlatType(cfg, Len(v), SumSeq(v), StdTenths(v, 0)))

\* calculate_cpu_request / calculate_memory_request of WorkloadAwareStrategy
WorkloadAwareValue(cfg, dim, samples, workload_type) ==
    IF dim = "cpu"
    THEN IF workload_type = "intensive" THEN (Percentile(samples, 99) * 11) \div 10
         ELSE IF workload_type = "moderate" THEN (Percentile(samples, 95) * 11) \div 10
         ELSE (Percentile(samples, 90) * 11) \div 10
    ELSE IF workload_type = "intensive" THEN (MaxSeq(samples) * 13) \div 10
         ELSE IF workload_type = "moderate" THEN (MaxSeq(samples) * 12) \div 10
         ELSE (MaxSeq(samples) * cfg.memory_buffer) \div 100
WorkloadAwareCalculate(cfg, dim, samples, timestamps) ==
    IF samples = <<>> THEN Returned(ConfigMin(cfg, dim))
    ELSE IF timestamps # <<>> /\ Len(samples) # Len(timestamps) THEN Raised
    ELSE Returned(PyMax(WorkloadAwareValue(cfg, dim, samples,
                                           DetectWorkloadType(cfg, samples, timestamps)),
                        ConfigMin(cfg, dim)))

(***************************************************************************)
(* AdaptiveStrategy (adaptive_strategy.py)                                 *)
(***************************************************************************)
\* _analyze_time_patterns of AdaptiveStrategy: hours in UTC, the end hour
\* included (hour <= business_hours_end); has_business_hours_pattern is
\* |bm - nbm| > bm * 0.2 on the bucket means, an empty bucket having mean 0
AdaptiveBuckets(business_hours, non_business) ==
    [business_hours |-> business_hours,
     non_business |-> non_business,
     has_business_hours_pattern |->
         IF business_hours = <<>> THEN SumSeq(non_business) > 0
         ELSE IF non_business = <<>> THEN SumSeq(business_hours) > 0
         ELSE 5 * Abs(SumSeq(business_hours) * Len(non_business)
                      - SumSeq(non_business) * Len(business_hours))
              > SumSeq(business_hours) * Len(non_business),
     business_hours_p95 |-> IF business_hours = <<>> THEN 0
                            ELSE Percentile(business_hours, 95)]
AdaptivePatterns(cfg, samples, timestamps) ==
    Let([i \in 1..Len(timestamps) |->
            /\ HourOf(timestamps[i]) >= cfg.business_hours_start
            /\ HourOf(timestamps[i]) <= cfg.business_hours_end
            /\ DayOfWeek(timestamps[i]) \in cfg.business_days],
        LAMBDA mask :
            AdaptiveBuckets(SelectRows(samples, mask),
                            SelectRows(samples, [i \in 1..Len(mask) |-> ~mask[i]])))

\* AdaptiveStrategy.calculate_cpu_request
AdaptiveWithPattern(cfg, p95, time_patterns) ==
    IF time_patterns.has_business_hours_pattern
    THEN Returned(PyMax((time_patterns.business_hours_p95 * 11) \div 10, cfg.min_cpu_cores))
    ELSE Returned(PyMax((p95 * 11) \div 10, cfg.min_cpu_cores))
AdaptiveCpuFrom(cfg, samples, timestamps, p95, p99) ==
    IF RatioAbove(p99, p95, 20)
    THEN Returned(PyMax((p99 * 11) \div 10, cfg.min_cpu_cores))
    ELSE IF timestamps = <<>>
    THEN Returned(PyMax((p95 * 11) \div 10, cfg.min_cpu_cores))
    ELSE IF Len(samples) # Len(timestamps) THEN Raised
    ELSE AdaptiveWithPattern(cfg, p95, AdaptivePatterns(cfg, samples, timestamps))
AdaptiveCalculateCpu(cfg, samples, timestamps) ==
    IF samples = <<>> THEN Returned(cfg.min_cpu_cores)
    ELSE AdaptiveCpuFrom(cfg, samples, timestamps,
                         Percentile(samples, 95), Percentile(samples, 99))

\* _analyze_trends of AdaptiveStrategy: growth_rate = slope * n / samples[0]
\* in millionths, the slope fitted on the raw samples
AdaptiveTrendOf(cfg, growth) ==
    [trend |-> IF growth > cfg.trend_threshold * 1000 THEN "increasing"
               ELSE IF growth < 0 - cfg.trend_threshold * 1000 THEN "decreasing"
               ELSE "stable",
     growth_rate |-> growth]
AdaptiveGrowth(v, slope) ==
    IF v[1] = 0 THEN 0 ELSE SignedFixDiv(slope.num * Len(v), slope.den * v[1], 6)
AdaptiveTrend(cfg, samples) ==
    IF Len(samples) < 2 THEN [trend |-> "stable", growth_rate |-> 0]
    ELSE Let(Reduced(samples), LAMBDA v :
             AdaptiveTrendOf(cfg, AdaptiveGrowth(v, PolyfitSlope(v))))

\* AdaptiveStrategy.calculate_memory_request (the timestamps are not used)
AdaptiveMemoryFrom(cfg, peak, trend) ==
    IF trend.trend = "increasing"
    THEN Returned(PyMax((((peak * (1000 + trend.growth_rate \div 1000)) \div 1000)
                            * cfg.memory_buffer) \div 100,
                        cfg.min_memory_bytes))
    ELSE Returned(PyMax((peak * cfg.memory_buffer) \div 100, cfg.min_memory_bytes))
AdaptiveMemoryPeak(cfg, samples, peak, p95) ==
    IF peak > p95 * 2
    THEN Returned(PyMax((((7 * peak + 3 * p95) \div 10) * cfg.memory_buffer) \div 100,
                        cfg.min_memory_bytes))
    ELSE AdaptiveMemoryFrom(cfg, peak, AdaptiveTrend(cfg, samples))
AdaptiveCalculateMemory(cfg, samples) ==
    IF samples = <<>> THEN Returned(cfg.min_memory_bytes)
    ELSE AdaptiveMemoryPeak(cfg, samples, MaxSeq(samples), Percentile(samples, 95))

AdaptiveCalculate(cfg, dim, samples, timestamps) ==
    IF dim = "cpu" THEN AdaptiveCalculateCpu(cfg, samples, timestamps)
    ELSE AdaptiveCalculateMemory(cfg, samples)

(***************************************************************************)
(* MovingAverageStrategy (moving_average_strategy.py)                      *)
(***************************************************************************)
\* series.ewm(span, adjust=False).mean().iloc[-1] in thousandths of a unit:
\* y1 = x1, yt = (1 - a) y(t-1) + a xt with a = 2 / (span + 1)
RECURSIVE Ewma(_, _)
Ewma(series, span) ==
    IF Len(series) = 1 THEN 1000 * series[1]
    ELSE ((span - 1) * Ewma(FirstN(series, Len(series) - 1), span)
          + 2000 * series[Len(series)]) \div (span + 1)

\* scipy.stats.t.ppf((1 + confidence) / 2, df) in thousandths for
\* confidence 95 and 99 (percent); nan for df = 0
StudentT(confidence, df) ==
    IF df = 0 THEN NaN
    ELSE IF confidence = 95
    THEN <<12706, 4303, 3182, 2776, 2571, 2447, 2365, 2306, 2262, 2228>>[df]
    ELSE <<63657, 9925, 5841, 4604, 4032, 3707, 3499, 3355, 3250, 3169>>[df]

\* _calculate_prediction_interval: the deviation of the last min(n, 12)
\* values times the t value; nan for a single value
IntervalOf(rolling_std, t_value) ==
    IF rolling_std = NaN \/ t_value = NaN THEN NaN
    ELSE (rolling_std * (t_value \div 10)) \div 1000
PredictionInterval(series, confidence) ==
    IntervalOf(StdTenths(LastN(series, 12), 1), StudentT(confidence, Len(series) - 1))

\* the body of calculate_cpu_request / calculate_memory_request of
\* MovingAverageStrategy past the empty-series check; max(nan, minimum) is nan
Recommended(weighted_avg, interval) ==
    IF interval = NaN THEN NaN ELSE weighted_avg + interval
MovingAverageValue(cfg, dim, samples) ==
    PyMax(Scale(Recommended(
                    IF dim = "cpu"
                    THEN (5 * Ewma(samples, 6) + 3 * Ewma(samples, 12)
                          + 2 * Ewma(samples, 24)) \div 10000
                    ELSE (4 * Ewma(samples, 24) + 6 * Ewma(samples, 48)) \div 10000,
                    PredictionInterval(samples, IF dim = "cpu" THEN 95 ELSE 99)),
                SafetyFactor(cfg, dim), 100),
          ConfigMin(cfg, dim))

\* without the test for an empty series, .iloc[-1] raises IndexError
MovingAverageNoEmptyCheck(cfg, dim, samples) ==
    IF samples = <<>> THEN Raised
    ELSE Returned(MovingAverageValue(cfg, dim, samples))
\* MovingAverageStrategy.calculate_cpu_request / calculate_memory_request
MovingAverageCalculate(cfg, dim, samples) ==
    IF samples = <<>> THEN Returned(ConfigMin(cfg, dim))
    ELSE Returned(MovingAverageValue(cfg, dim, samples))

(***************************************************************************)
(* The model-fitting libraries (statsmodels QuantReg, pmdarima auto_arima, *)
(* Prophet) are outside the repository.  lib names how the library behaves *)
(* during a run:                                                           *)
(*   "fails"     every fit raises                                          *)
(*   "tracks"    a fit raises on fewer than two rows; otherwise quantile q *)
(*               is predicted as the q-th percentile of the series and an  *)
(*               upper bound as its peak                                   *)
(*   "negative"  every prediction is negative                              *)
(*   "huge"      every prediction is above the largest node                *)
(*   "nan"       every prediction is nan                                   *)
(***************************************************************************)
Libs == {"fails", "tracks", "negative", "huge", "nan"}

LibFails(lib, samples) == lib = "fails" \/ (lib = "tracks" /\ Len(samples) < 2)

LibPredict(lib, dim, samples, q) ==
    IF lib = "tracks" THEN Percentile(samples, q)
    ELSE IF lib = "negative" THEN 0 - 1000
    ELSE IF lib = "huge" THEN (IF dim = "cpu" THEN 70000 ELSE 3000000)
    ELSE NaN

(***************************************************************************)
(* QuantileRegressionStrategy (quantile_regression_strategy.py)            *)
(***************************************************************************)
\* the blend 0.2 / 0.3 / 0.5 (CPU: q50, q75, q95) or 0.1 / 0.3 / 0.6
\* (memory: q75, q95, q99) of the three predictions, nan propagating
QuantileBlend(dim, a, b, c) ==
    IF a = NaN \/ b = NaN \/ c = NaN THEN NaN
    ELSE IF dim = "cpu" THEN (2 * a + 3 * b + 5 * c) \div 10
    ELSE (1 * a + 3 * b + 6 * c) \div 10

\* calculate_cpu_request / calculate_memory_request: nothing catches a
\* failing fit, nor QuantReg's error on arrays of different lengths
QuantileRegressionCalculate(cfg, dim, samples, timestamps, lib) ==
    LET weighted_pred ==
            IF dim = "cpu"
            THEN QuantileBlend(dim, LibPredict(lib, dim, samples, 50),
                                    LibPredict(lib, dim, samples, 75),
                                    LibPredict(lib, dim, samples, 95))
            ELSE QuantileBlend(dim, LibPredict(lib, dim, samples, 75),
                                    LibPredict(lib, dim, samples, 95),
                                    LibPredict(lib, dim, samples, 99))
    IN  IF samples = <<>> \/ timestamps = <<>> THEN Returned(ConfigMin(cfg, dim))
        ELSE IF Len(samples) # Len(timestamps) \/ LibFails(lib, samples) THEN Raised
        ELSE Returned(PyMax(Scale(weighted_pred, SafetyFactor(cfg, dim), 100),
                            ConfigMin(cfg, dim)))

(***************************************************************************)
(* PMDARIMAStrategy (pmdarima_strategy.py) and ProphetStrategy             *)
(* (prophet_strategy.py): the forecast's upper bound, or the percentile /  *)
(* peak fallback when preparing the frame, fitting or predicting fails     *)
(***************************************************************************)
ForecastFallback(cfg, dim, samples) ==
    IF dim = "cpu" THEN PyMax((Percentile(samples, 95) * 11) \div 10, cfg.min_cpu_cores)
    ELSE PyMax((MaxSeq(samples) * cfg.memory_buffer) \div 100, cfg.min_memory_bytes)

\* without the try blocks: a failing preparation or fit leaves the call
ForecastPropagating(cfg, dim, samples, timestamps, lib) ==
    IF samples = <<>> \/ timestamps = <<>> THEN Returned(ConfigMin(cfg, dim))
    ELSE IF Len(samples) # Len(timestamps) \/ LibFails(lib, samples) THEN Raised
    ELSE Returned(PyMax(Scale(LibPredict(lib, dim, samples, 100),
                              SafetyFactor(cfg, dim), 100),
                        ConfigMin(cfg, dim)))
\* calculate_cpu_request / calculate_memory_request of both strategies
ForecastCalculate(cfg, dim, samples, timestamps, lib) ==
    IF samples = <<>> \/ timestamps = <<>> THEN Returned(ConfigMin(cfg, dim))
    ELSE IF Len(samples) # Len(timestamps) \/ LibFails(lib, samples)
    THEN Returned(ForecastFallback(cfg, dim, samples))
    ELSE Returned(PyMax(Scale(LibPredict(lib, dim, samples, 100),
                              SafetyFactor(cfg, dim), 100),
                        ConfigMin(cfg, dim)))

PMDARIMACalculate(cfg, dim, samples, timestamps, lib) ==
    ForecastCalculate(cfg, dim, samples, timestamps, lib)

ProphetCalculate(cfg, dim, samples, timestamps, lib) ==
    ForecastCalculate(cfg, dim, samples, timestamps, lib)

(***************************************************************************)
(* The state of a strategy instance: the two histograms of BasicStrategy   *)
(* (the instance itself, or the ensemble's member 'basic') and the         *)
(* ensemble's weights, weights[name] / weight_den each.                    *)
(***************************************************************************)
\* an ensemble built over every other strategy of the factory
EnsembleOfEveryStrategy ==
    <<"basic", "time_aware", "trend_aware", "workload_aware", "adaptive",
      "quantile_regression", "moving_average", "pmdarima", "prophet">>
\* EnsembleStrategy.__init__: the keys of self.strategies, in dict order
EnsembleMembers ==
    <<"basic", "time_aware", "workload_aware", "trend_aware",
      "quantile_regression", "moving_average", "prophet">>

MemberNames == {EnsembleMembers[i] : i \in 1..Len(EnsembleMembers)}

\* BasicStrategy.__init__ / EnsembleStrategy.__init__: weights 1 / len(strategies)
NewStrategyState ==
    [cpu |-> NewHistogram(1000, 100),
     memory |-> NewHistogram(1000, 50),
     weights |-> [name \in MemberNames |-> 1],
     weight_den |-> Len(EnsembleMembers)]

HistogramOf(st, dim) == IF dim = "cpu" THEN st.cpu ELSE st.memory

WithHistogram(st, dim, h) ==
    IF dim = "cpu" THEN [st EXCEPT !.cpu = h] ELSE [st EXCEPT !.memory = h]

\* the outcome of a member that keeps no state, with the histogram of the
\* member 'basic' unchanged
Stateless(outcome, h) == [raised |-> outcome.raised, value |-> outcome.value, h |-> h]

\* strategy.calculate_cpu_request / calculate_memory_request of one member
\* of the ensemble: [raised, value, h], h the member 'basic' histogram after
MemberCalculate(cfg, dim, name, h, cpu_max_samples, samples, timestamps, lib) ==
    IF name = "basic"
    THEN BasicCalculate(cfg, dim, h, cpu_max_samples, samples, timestamps)
    ELSE Stateless(
            IF name = "time_aware" THEN TimeAwareCalculate(cfg, dim, samples, timestamps)
            ELSE IF name = "workload_aware"
            THEN WorkloadAwareCalculate(cfg, dim, samples, timestamps)
            ELSE IF name = "trend_aware"
            THEN TrendAwareCalculate(cfg, dim, samples, timestamps)
            ELSE IF name = "quantile_regression"
            THEN QuantileRegressionCalculate(cfg, dim, samples, timestamps, lib)
            ELSE IF name = "moving_average" THEN MovingAverageCalculate(cfg, dim, samples)
            ELSE ProphetCalculate(cfg, dim, samples, timestamps, lib),
            h)

\* _get_weighted_prediction: sum of predictions[name] * weights[name]
RECURSIVE WeightedSum(_, _, _)
WeightedSum(predictions, weights, names) ==
    IF names = {} THEN 0
    ELSE LET name == CHOOSE x \in names : TRUE
         IN  predictions[name] * weights[name]
             + WeightedSum(predictions, weights, names \ {name})
GetWeightedPrediction(predictions, weights, weight_den) ==
    IF \E name \in DOMAIN predictions : predictions[name] = NaN THEN NaN
    ELSE WeightedSum(predictions, weights, DOMAIN predictions) \div weight_den

\* the new weights 1 - error / total_error kept as they are, not divided by
\* their sum
UpdateWeightsUnnormalised(st, actual, predictions) ==
    Let([name \in MemberNames |-> Abs(predictions[name] - actual)], LAMBDA d :
        Let(WeightedSum(d, [name \in MemberNames |-> 1], MemberNames), LAMBDA T :
            IF actual >= 0 /\ T > 0
            THEN [st EXCEPT !.weights = [name \in MemberNames |-> T - d[name]],
                            !.weight_den = T]
            ELSE st))
\* _update_weights(actual, predictions) with one prediction per member.
\* errors[name] is |pred - actual| / actual, or |pred| for actual = 0, so
\* d[name] / actual with d[name] = |pred - actual| in both cases (actual
\* taken as 1 where it is 0); total_error > 0 needs actual >= 0 and a
\* positive sum T of the d.  Then new_weights[name] = 1 - d[name] / T, their
\* sum is n - 1, and weights[name] = (T - d[name]) / ((n - 1) T): kept as
\* numerators over one denominator, in lowest terms.
UpdateWeights(st, actual, predictions) ==
    Let([name \in MemberNames |-> Abs(predictions[name] - actual)], LAMBDA d :
        Let(WeightedSum(d, [name \in MemberNames |-> 1], MemberNames), LAMBDA T :
            IF actual >= 0 /\ T > 0
            THEN Let(GcdSeq([i \in 1..Len(EnsembleMembers) |-> T - d[EnsembleMembers[i]]]),
                     LAMBDA g :
                        [st EXCEPT !.weights = [name \in MemberNames |-> (T - d[name]) \div g],
                                   !.weight_den = ((Len(EnsembleMembers) - 1) * T) \div g])
            ELSE st))

\* what each member's calculate_* does on the arguments of the ensemble
\* call, and the members that raise
MemberOutcomes(cfg, dim, st, samples, timestamps, lib) ==
    [name \in MemberNames |->
        MemberCalculate(cfg, dim, name, HistogramOf(st, dim), st.cpu.max_samples,
                        samples, timestamps, lib)]
FailedMembers(outcome) == {name \in MemberNames : outcome[name].raised}
\* the loop without try / except: the first exception leaves it
EnsembleAbortOnFailure(cfg, dim, st, samples, timestamps, lib) ==
    Let(MemberOutcomes(cfg, dim, st, samples, timestamps, lib), LAMBDA outcome :
        [predictions |-> [name \in MemberNames \ FailedMembers(outcome) |->
                            outcome[name].value],
         failed |-> FailedMembers(outcome),
         aborted |-> FailedMembers(outcome) # {},
         h |-> outcome["basic"].h])
\* the loop of EnsembleStrategy.calculate_*: every member is called inside
\* try / except; a member that raises predicts the configured minimum.
\* failed is the set of members that raised, aborted whether an exception
\* left the loop (none does), h the histogram of the member 'basic' after.
EnsemblePredictions(cfg, dim, st, samples, timestamps, lib) ==
    Let(MemberOutcomes(cfg, dim, st, samples, timestamps, lib), LAMBDA outcome :
        [predictions |-> [name \in MemberNames |->
                            IF outcome[name].raised THEN ConfigMin(cfg, dim)
                            ELSE outcome[name].value],
         failed |-> FailedMembers(outcome),
         aborted |-> FALSE,
         h |-> outcome["basic"].h])

\* EnsembleStrategy.calculate_cpu_request / calculate_memory_request:
\* [raised, value, st]
EnsembleResult(cfg, dim, st, loop) ==
    IF loop.aborted
    THEN [raised |-> TRUE, value |-> None, st |-> WithHistogram(st, dim, loop.h)]
    ELSE [raised |-> FALSE,
          value |-> PyMax(Scale(GetWeightedPrediction(loop.predictions, st.weights,
                                                      st.weight_den),
                                SafetyFactor(cfg, dim), 100),
                          ConfigMin(cfg, dim)),
          st |-> WithHistogram(st, dim, loop.h)]
EnsembleCalculate(cfg, dim, st, samples, timestamps, lib) ==
    IF samples = <<>> \/ timestamps = <<>>
    THEN [raised |-> FALSE, value |-> ConfigMin(cfg, dim), st |-> st]
    ELSE EnsembleResult(cfg, dim, st,
                        EnsemblePredictions(cfg, dim, st, samples, timestamps, lib))

(***************************************************************************)
(* StrategyFactory.create_strategy (strategy_factory.py) and the call of   *)
(* the selected strategy                                                   *)
(***************************************************************************)
Strategies ==
    {"basic", "time_aware", "trend_aware", "workload_aware", "adaptive",
     "quantile_regression", "moving_average", "pmdarima", "prophet", "ensemble"}

\* the strategies whose result depends on a model-fitting library
UsesLibrary(strategy) ==
    strategy \in {"quantile_regression", "pmdarima", "prophet", "ensemble"}

\* the strategy object after a call: BasicStrategy keeps the histogram of
\* the dimension, the other strategies keep nothing between calls
OnHistogram(outcome, st, dim) ==
    [raised |-> outcome.raised, value |-> outcome.value,
     st |-> WithHistogram(st, dim, outcome.h)]
OnNothing(outcome, st) == [raised |-> outcome.raised, value |-> outcome.value, st |-> st]

\* every strategy but the ensemble answering from the decaying histograms
\* of the instance, as BasicStrategy does
CalculateOnHistogram(cfg, dim, st, samples, timestamps, lib) ==
    IF cfg.strategy = "ensemble"
    THEN EnsembleCalculate(cfg, dim, st, samples, timestamps, lib)
    ELSE OnHistogram(BasicCalculate(cfg, dim, HistogramOf(st, dim), st.cpu.max_samples,
                                    samples, timestamps), st, dim)
\* strategy.calculate_cpu_request(samples, timestamps) (dim = "cpu") or
\* strategy.calculate_memory_request (dim = "memory"): [raised, value, st]
Calculate(cfg, dim, st, samples, timestamps, lib) ==
    IF cfg.strategy = "basic"
    THEN OnHistogram(BasicCalculate(cfg, dim, HistogramOf(st, dim), st.cpu.max_samples,
                                    samples, timestamps), st, dim)
    ELSE IF cfg.strategy = "ensemble"
    THEN EnsembleCalculate(cfg, dim, st, samples, timestamps, lib)
    ELSE OnNothing(
            IF cfg.strategy = "time_aware"
            THEN TimeAwareCalculate(cfg, dim, samples, timestamps)
            ELSE IF cfg.strategy = "trend_aware"
            THEN TrendAwareCalculate(cfg, dim, samples, timestamps)
            ELSE IF cfg.strategy = "workload_aware"
            THEN WorkloadAwareCalculate(cfg, dim, samples, timestamps)
            ELSE IF cfg.strategy = "adaptive"
            THEN AdaptiveCalculate(cfg, dim, samples, timestamps)
            ELSE IF cfg.strategy = "quantile_regression"
            THEN QuantileRegressionCalculate(cfg, dim, samples, timestamps, lib)
            ELSE IF cfg.strategy = "moving_average"
            THEN MovingAverageCalculate(cfg, dim, samples)
            ELSE IF cfg.strategy = "pmdarima"
            THEN PMDARIMACalculate(cfg, dim, samples, timestamps, lib)
            ELSE ProphetCalculate(cfg, dim, samples, timestamps, lib),
            st)

(***************************************************************************)
(* ResourceOptimizer: validation, limit derivation, severity               *)
(***************************************************************************)
MIN_CPU == 10
MAX_CPU == 64000
MIN_MEMORY == 320
MAX_MEMORY == 2621440
SMALL_CPU == 100
MEDIUM_CPU == 1000
SMALL_MEMORY == 2560

\* a validation that forgets the upper bound
ValidateCpuNoCeiling(cpu_cores) == PyMax(MIN_CPU, cpu_cores)
\* _validate_cpu_request: max(MIN_CPU, min(cpu_cores, MAX_CPU))
ValidateCpuRequest(cpu_cores) == PyMax(MIN_CPU, PyMin(cpu_cores, MAX_CPU))

\* _validate_memory_request: max(MIN_MEMORY, min(memory_bytes, MAX_MEMORY))
ValidateMemoryRequest(memory_bytes) == PyMax(MIN_MEMORY, PyMin(memory_bytes, MAX_MEMORY))

\* limit derivations gone wrong: one factor for every tier; the request
\* divided by the factor of its tier
CpuLimitFlat(cpu_request) == ValidateCpuRequest(Scale(cpu_request, 20, 10))
CpuLimitDividing(cpu_request) ==
    ValidateCpuRequest(
        IF cpu_request < SMALL_CPU THEN Scale(cpu_request, 10, 30)
        ELSE IF cpu_request < MEDIUM_CPU THEN Scale(cpu_request, 10, 25)
        ELSE Scale(cpu_request, 10, 20))
\* the first threshold misplaced at 0.2 core
CpuLimitShiftedTier(cpu_request) ==
    ValidateCpuRequest(
        IF cpu_request < 2 * SMALL_CPU THEN Scale(cpu_request, 30, 10)
        ELSE IF cpu_request < MEDIUM_CPU THEN Scale(cpu_request, 25, 10)
        ELSE Scale(cpu_request, 20, 10))
\* _calculate_cpu_limit: x3.0 below 0.1 core, x2.5 below 1 core, else x2.0
CalculateCpuLimit(cpu_request) ==
    ValidateCpuRequest(
        IF cpu_request < SMALL_CPU THEN Scale(cpu_request, 30, 10)
        ELSE IF cpu_request < MEDIUM_CPU THEN Scale(cpu_request, 25, 10)
        ELSE Scale(cpu_request, 20, 10))

\* _calculate_memory_limit: x1.5 below 256 MiB, else x1.3
CalculateMemoryLimit(memory_request) ==
    ValidateMemoryRequest(
        IF memory_request < SMALL_MEMORY THEN Scale(memory_request, 15, 10)
        ELSE Scale(memory_request, 13, 10))

\* severity rules gone wrong: an absent current value taken as "no
\* baseline, GOOD"; thresholds compared with > instead of >=
SeverityIgnoringAbsent(current, recommended) ==
    IF current = None THEN "GOOD"
    ELSE IF recommended = None THEN "WARNING"
    ELSE IF current = 0 THEN "raise"
    ELSE IF current < 0 THEN "GOOD"
    ELSE IF 100 * Abs(current - recommended) >= 50 * current THEN "CRITICAL"
    ELSE IF 100 * Abs(current - recommended) >= 25 * current THEN "WARNING"
    ELSE IF 100 * Abs(current - recommended) >= 10 * current THEN "OK"
    ELSE "GOOD"
SeverityStrictThresholds(current, recommended) ==
    IF current = None /\ recommended = None THEN "GOOD"
    ELSE IF current = None \/ recommended = None THEN "WARNING"
    ELSE IF current = 0 THEN "raise"
    ELSE IF current < 0 THEN "GOOD"
    ELSE IF 100 * Abs(current - recommended) > 50 * current THEN "CRITICAL"
    ELSE IF 100 * Abs(current - recommended) > 25 * current THEN "WARNING"
    ELSE IF 100 * Abs(current - recommended) > 10 * current THEN "OK"
    ELSE "GOOD"
\* _determine_severity; "raise" is the ZeroDivisionError of current = 0.
\* diff >= k/100 is decided on the cross product (exact for current > 0);
\* a negative current gives diff <= 0, hence GOOD.
DetermineSeverity(current, recommended) ==
    IF current = None /\ recommended = None THEN "GOOD"
    ELSE IF current = None \/ recommended = None THEN "WARNING"
    ELSE IF current = 0 THEN "raise"
    ELSE IF current < 0 THEN "GOOD"
    ELSE IF 100 * Abs(current - recommended) >= 50 * current THEN "CRITICAL"
    ELSE IF 100 * Abs(current - recommended) >= 25 * current THEN "WARNING"
    ELSE IF 100 * Abs(current - recommended) >= 10 * current THEN "OK"
    ELSE "GOOD"

(***************************************************************************)
(* The inputs: what get_deployments, the container query and               *)
(* get_historical_usage hand to the optimizer                              *)
(***************************************************************************)
MaxLen == 2

\* CPU in millicores, memory in tenths of a MiB
CpuVals == {5, 500}
MemVals == {2000}

SeqsUpTo(vals, n) == UNION {[1..k -> vals] : k \in 0..n}

\* the range query steps by 5 minutes; T0 is a Monday, 10:00 UTC
T0 == 4 * 86400 + 10 * 3600
Stamps(n) == [i \in 1..n |-> T0 + 300 * (i - 1)]

\* get_historical_usage: one timestamp per CPU point; the memory points
\* are counted on their own: as many as CPU points, none (an empty result),
\* or the whole window while the CPU series has gaps
Usages ==
    {u \in [cpu_samples : SeqsUpTo(CpuVals, MaxLen),
            memory_samples : SeqsUpTo(MemVals, MaxLen),
            timestamps : {Stamps(n) : n \in 0..MaxLen}] :
        /\ Len(u.timestamps) = Len(u.cpu_samples)
        /\ Len(u.memory_samples) \in {0, Len(u.cpu_samples), MaxLen}}

\* the containers the queries may find, in the order the loops visit them;
\* which usage belongs to which position is free, so one order per length
\* covers every order
Visits == <<"a", "b">>
Orders == {SubSeq(Visits, 1, k) : k \in 0..Len(Visits)}

\* a strategy that fits no library model runs under one library behaviour
LibsOf(s) == IF UsesLibrary(s) THEN Libs ELSE {"tracks"}

(***************************************************************************)
(* generate_recommendations (resource_optimizer.py): the body of the       *)
(* container loop                                                          *)
(***************************************************************************)
Entry(value) == [value |-> value, severity |-> DetermineSeverity(None, value)]

Record(cpu_request, memory_request) ==
    [requests |-> [cpu |-> Entry(cpu_request),
                   memory |-> Entry(memory_request)],
     limits |-> [cpu |-> Entry(CalculateCpuLimit(cpu_request)),
                 memory |-> Entry(CalculateMemoryLimit(memory_request))]]

\* [raised, at, record, raw, st]: the record of one container, raw the two
\* values the strategy returned, st the strategy instance afterwards; a
\* raising strategy call leaves the loop body at once
Recommend(cfg, st, usage, lib) ==
    Let(Calculate(cfg, "cpu", st, usage.cpu_samples, usage.timestamps, lib),
        LAMBDA cpu :
            IF cpu.raised
            THEN [raised |-> TRUE, at |-> "calculate_cpu_request", st |-> cpu.st]
            ELSE Let(Calculate(cfg, "memory", cpu.st, usage.memory_samples,
                               usage.timestamps, lib),
                     LAMBDA memory :
                        IF memory.raised
                        THEN [raised |-> TRUE, at |-> "calculate_memory_request",
                              st |-> memory.st]
                        ELSE [raised |-> FALSE, at |-> "", st |-> memory.st,
                              raw |-> [cpu |-> cpu.value, memory |-> memory.value],
                              record |-> Record(ValidateCpuRequest(cpu.value),
                                                ValidateMemoryRequest(memory.value))]))

(***************************************************************************)
(* update_manifest_with_new_resources (manifest_updater.py).  A line is    *)
(* the sequence of its words, the empty sequence a blank line; a key such  *)
(* as 'cpu:' is in the line when it is one of the words.  The new limits   *)
(* and requests are dicts of convert_resource_values: empty, with both     *)
(* keys, or with the memory only (a CPU value that failed to convert).     *)
(***************************************************************************)
\* 'key' in line
HasKey(line, key) == \E i \in 1..Len(line) : line[i] = key

\* line.split(key)[0] + f"{key} {value}\n"
Rewritten(line, key, value) ==
    Let(CHOOSE i \in 1..Len(line) :
            line[i] = key /\ \A j \in 1..(i - 1) : line[j] # key,
        LAMBDA first : SubSeq(line, 1, first - 1) \o <<key, value>>)

\* the flags before the first line
NoManifest ==
    [file |-> <<>>, unread |-> <<>>, updated_lines |-> <<>>,
     in_resources |-> FALSE, in_limits |-> FALSE, in_requests |-> FALSE]

\* "Track which section we're in": the flags after seeing the line, with
\* the clearing of the other flag left out
TrackSectionKeepingFlags(m, line) ==
    IF HasKey(line, "resources:") THEN [m EXCEPT !.in_resources = TRUE]
    ELSE IF m.in_resources /\ line = <<>>
    THEN [m EXCEPT !.in_resources = FALSE, !.in_limits = FALSE, !.in_requests = FALSE]
    ELSE IF m.in_resources /\ HasKey(line, "limits:")
    THEN [m EXCEPT !.in_limits = TRUE]
    ELSE IF m.in_resources /\ HasKey(line, "requests:")
    THEN [m EXCEPT !.in_requests = TRUE]
    ELSE m
\* "Track which section we're in": the flags after seeing the line
TrackSection(m, line) ==
    IF HasKey(line, "resources:") THEN [m EXCEPT !.in_resources = TRUE]
    ELSE IF m.in_resources /\ line = <<>>
    THEN [m EXCEPT !.in_resources = FALSE, !.in_limits = FALSE, !.in_requests = FALSE]
    ELSE IF m.in_resources /\ HasKey(line, "limits:")
    THEN [m EXCEPT !.in_limits = TRUE, !.in_requests = FALSE]
    ELSE IF m.in_resources /\ HasKey(line, "requests:")
    THEN [m EXCEPT !.in_requests = TRUE, !.in_limits = FALSE]
    ELSE m

\* "Update values if we're in the right section": [raised, line]; a key the
\* dict lacks raises KeyError
UpdateValue(line, new_values) ==
    IF HasKey(line, "cpu:")
    THEN IF "cpu" \in DOMAIN new_values
         THEN [raised |-> FALSE, line |-> Rewritten(line, "cpu:", new_values["cpu"])]
         ELSE [raised |-> TRUE, line |-> line]
    ELSE IF HasKey(line, "memory:")
    THEN IF "memory" \in DOMAIN new_values
         THEN [raised |-> FALSE, line |-> Rewritten(line, "memory:", new_values["memory"])]
         ELSE [raised |-> TRUE, line |-> line]
    ELSE [raised |-> FALSE, line |-> line]
UpdateLine(m, line, new_limits, new_requests) ==
    IF m.in_limits /\ DOMAIN new_limits # {} THEN UpdateValue(line, new_limits)
    ELSE IF m.in_requests /\ DOMAIN new_requests # {} THEN UpdateValue(line, new_requests)
    ELSE [raised |-> FALSE, line |-> line]

(***************************************************************************)
(* State                                                                   *)
(*   strategy, lib    the configured strategy and the library behaviour    *)
(*   env              BUSINESS_HOURS_START / _END of the environment       *)
(*   st               the one strategy instance the optimizer holds, or    *)
(*                    the histogram when a DecayingHistogram is called     *)
(*   pc               "main" before create_strategy; "start", "loop",      *)
(*                    "done" (returned) or "raised" for                    *)
(*                    generate_recommendations; "idle" / "returned" /      *)
(*                    "raised" for a single strategy or helper call        *)
(*   todo             the containers the loops have still to visit         *)
(*   recommendations  the dict being built, by container                   *)
(*   error            <<container, call>> of the exception that left       *)
(*                    generate_recommendations, <<>> when none             *)
(*   usages, raw      history: per container, what get_historical_usage    *)
(*                    returned and the two values the strategy returned    *)
(*   call             the last direct call: arguments and outcome          *)
(*   manifest         update_manifest_with_new_resources: the file on disk, *)
(*                    the lines not yet read, updated_lines and the three  *)
(*                    flags; pc is "scan", "written" or "raised"           *)
(***************************************************************************)
VARIABLES strategy, lib, env, st, pc, todo, recommendations, error, usages, raw, call,
          manifest

vars == <<strategy, lib, env, st, pc, todo, recommendations, error, usages, raw, call,
          manifest>>

\* main: the RecommendationConfig built from the selector and the environment
cfg ==
    [RecommendationConfig(strategy) EXCEPT
        !.business_hours_start = env.BUSINESS_HOURS_START,
        !.business_hours_end = env.BUSINESS_HOURS_END]

NoCall == [op |-> "none"]

\* ResourceOptimizer.__init__ with a strategy from StrategyFactory
Init ==
    /\ strategy \in Strategies
    /\ lib \in LibsOf(strategy)
    /\ env = [BUSINESS_HOURS_START |-> 9, BUSINESS_HOURS_END |-> 17]
    /\ st = NewStrategyState
    /\ pc = "start"
    /\ todo = <<>>
    /\ recommendations = <<>>
    /\ error = <<>>
    /\ raw = <<>>
    /\ usages = <<>>
    /\ call = NoCall
    /\ manifest = NoManifest

\* get_deployments and the container queries: the containers to visit; with
\* none the loops are over at once and the empty dict is returned
GetDeployments ==
    /\ pc = "start"
    /\ \E order \in Orders :
            /\ todo' = order
            /\ pc' = IF order = <<>> THEN "done" ELSE "loop"
    /\ UNCHANGED <<manifest, strategy, lib, env, st, recommendations, error, usages, raw, call>>

\* one turn of the container loop.  get_historical_usage or a strategy call
\* may raise; nothing in the loop catches it, and handle_exceptions logs
\* and re-raises, so generate_recommendations ends without a result.
\* After the last container the dict is returned.
Store(container, usage, r) ==
    /\ st' = r.st
    /\ usages' = usages @@ (container :> usage)
    /\ IF r.raised
       THEN /\ pc' = "raised"
            /\ error' = <<container, r.at>>
            /\ UNCHANGED <<todo, recommendations, raw>>
       ELSE /\ recommendations' = recommendations @@ (container :> r.record)
            /\ raw' = raw @@ (container :> r.raw)
            /\ todo' = Tail(todo)
            /\ pc' = IF Tail(todo) = <<>> THEN "done" ELSE "loop"
            /\ UNCHANGED error

ProcessContainer ==
    /\ pc = "loop"
    /\ todo # <<>>
    /\ \/ /\ pc' = "raised"
          /\ error' = <<Head(todo), "get_historical_usage">>
          /\ UNCHANGED <<st, todo, recommendations, usages, raw>>
       \/ \E usage \in Usages :
            Store(Head(todo), usage, Recommend(cfg, st, usage, lib))
    /\ UNCHANGED <<manifest, strategy, lib, env, call>>

Next == GetDeployments \/ ProcessContainer

Spec == Init /\ [][Next]_vars

(***************************************************************************)
(* main (main.py): the configuration is built from the --strategy option,  *)
(* one of the values of the enum RecommendationStrategy, and from the      *)
(* environment; then StrategyFactory.create_strategy, ResourceOptimizer    *)
(* and generate_recommendations.  The business hours of the environment    *)
(* are the defaults or given the wrong way round; the libraries fit or     *)
(* fail.                                                                   *)
(***************************************************************************)
InitMain ==
    /\ strategy \in Strategies \cup {"percentile"}
    /\ lib \in LibsOf(strategy) \cap {"tracks", "fails"}
    /\ env \in {[BUSINESS_HOURS_START |-> 9, BUSINESS_HOURS_END |-> 17],
                [BUSINESS_HOURS_START |-> 17, BUSINESS_HOURS_END |-> 9]}
    /\ st = NewStrategyState
    /\ pc = "main"
    /\ todo = <<>>
    /\ recommendations = <<>>
    /\ error = <<>>
    /\ raw = <<>>
    /\ usages = <<>>
    /\ call = NoCall
    /\ manifest = NoManifest

\* a factory that builds some strategy for every selector
CreateStrategyForAny ==
    /\ pc = "main"
    /\ pc' = "start"
    /\ UNCHANGED <<manifest, strategy, lib, env, st, todo, recommendations, error, usages, raw, call>>
\* StrategyFactory.create_strategy: ValueError for a selector without a
\* class in the dict, which handle_exceptions logs and re-raises
CreateStrategy ==
    /\ pc = "main"
    /\ IF strategy \in Strategies
       THEN pc' = "start" /\ UNCHANGED error
       ELSE pc' = "raised" /\ error' = <<"main", "create_strategy">>
    /\ UNCHANGED <<manifest, strategy, lib, env, st, todo, recommendations, usages, raw, call>>

NextMain == CreateStrategy \/ GetDeployments \/ ProcessContainer

SpecMain == InitMain /\ [][NextMain]_vars

(***************************************************************************)
(* One call of calculate_cpu_request / calculate_memory_request on a       *)
(* strategy instance, new or having served a container before, with any    *)
(* samples and any timestamps                                              *)
(***************************************************************************)
ServedBefore ==
    [cpu_samples |-> <<500, 500>>, memory_samples |-> <<2000, 2000>>,
     timestamps |-> Stamps(2)]

InitStrategy ==
    /\ strategy \in Strategies
    /\ lib \in LibsOf(strategy)
    /\ env \in {[BUSINESS_HOURS_START |-> 9, BUSINESS_HOURS_END |-> 17],
                [BUSINESS_HOURS_START |-> 9, BUSINESS_HOURS_END |-> HourOf(T0)],
                [BUSINESS_HOURS_START |-> HourOf(T0) + 1, BUSINESS_HOURS_END |-> 17]}
    /\ st \in {NewStrategyState,
               Recommend(RecommendationConfig(strategy), NewStrategyState,
                         ServedBefore, lib).st}
    /\ pc = "idle"
    /\ todo = <<>>
    /\ recommendations = <<>>
    /\ error = <<>>
    /\ usages = <<>>
    /\ raw = <<>>
    /\ call = NoCall
    /\ manifest = NoManifest

Called(dim, samples, timestamps, r) ==
    /\ call' = [op |-> "calculate", dim |-> dim, samples |-> samples,
                timestamps |-> timestamps, before |-> st,
                raised |-> r.raised, value |-> r.value]
    /\ st' = r.st
    /\ pc' = IF r.raised THEN "raised" ELSE "returned"
    /\ UNCHANGED <<manifest, strategy, lib, env, todo, recommendations, error, usages, raw>>

\* two longer series: ten CPU samples of 0.05 cores, and nine memory
\* samples of 100 MiB followed by one of 1000 MiB
Scenario ==
    [cpu |-> [i \in 1..10 |-> 50],
     memory |-> [i \in 1..10 |-> IF i < 10 THEN 1000 ELSE 10000]]

CalculateCpuRequest ==
    /\ pc = "idle"
    /\ \E samples \in SeqsUpTo(CpuVals, MaxLen) \cup {Scenario.cpu},
          n \in (0..MaxLen) \cup {Len(Scenario.cpu)} :
            Called("cpu", samples, Stamps(n),
                   Calculate(cfg, "cpu", st, samples, Stamps(n), lib))

CalculateMemoryRequest ==
    /\ pc = "idle"
    /\ \E samples \in SeqsUpTo(MemVals, MaxLen) \cup {Scenario.memory},
          n \in (0..MaxLen) \cup {Len(Scenario.memory)} :
            Called("memory", samples, Stamps(n),
                   Calculate(cfg, "memory", st, samples, Stamps(n), lib))

NextStrategy == CalculateCpuRequest \/ CalculateMemoryRequest

SpecStrategy == InitStrategy /\ [][NextStrategy]_vars

(***************************************************************************)
(* Any sequence of operations on one EnsembleStrategy instance: its        *)
(* construction, then calculate_cpu_request, calculate_memory_request and  *)
(* _update_weights in any order.  No caller in the repository invokes      *)
(* _update_weights, so the runs of the program never leave the weights of  *)
(* the constructor.                                                        *)
(***************************************************************************)
InitEnsemble ==
    /\ strategy = "ensemble"
    /\ lib \in LibsOf(strategy)
    /\ env = [BUSINESS_HOURS_START |-> 9, BUSINESS_HOURS_END |-> 17]
    /\ st = NewStrategyState
    /\ pc = "idle"
    /\ todo = <<>>
    /\ recommendations = <<>>
    /\ error = <<>>
    /\ usages = <<>>
    /\ raw = <<>>
    /\ call = NoCall
    /\ manifest = NoManifest

\* _update_weights with an observed value and one prediction per member:
\* every member predicting the same, or all but the first, which predicted
\* twice as much
UpdateWeightsCall ==
    /\ pc \in {"idle", "returned", "raised"}
    /\ \E actual \in {0 - 10, 0, 10}, high \in {{}, {"basic"}} :
            /\ st' = UpdateWeights(st, actual,
                                   [name \in MemberNames |-> IF name \in high THEN 20 ELSE 10])
            /\ call' = [op |-> "_update_weights", actual |-> actual,
                        predictions |-> [name \in MemberNames |->
                                            IF name \in high THEN 20 ELSE 10],
                        before |-> st]
    /\ UNCHANGED <<manifest, strategy, lib, env, pc, todo, recommendations, error, usages, raw>>

NextEnsemble == CalculateCpuRequest \/ CalculateMemoryRequest \/ UpdateWeightsCall

SpecEnsemble == InitEnsemble /\ [][NextEnsemble]_vars

(***************************************************************************)
(* One call of a helper of ResourceOptimizer: _determine_severity on any   *)
(* pair of present or absent amounts, _calculate_cpu_limit and             *)
(* _calculate_memory_limit on a validated request                          *)
(***************************************************************************)
MaxAmount == 120

Amounts == {None} \cup (0..MaxAmount)

\* validated requests: every value around the tier thresholds, then steps of
\* one core / 100 MiB up to the largest node
CpuRequests == (MIN_CPU..(2 * MEDIUM_CPU)) \cup {1000 * k : k \in 1..64}
MemoryRequests == (MIN_MEMORY..(2 * SMALL_MEMORY)) \cup {1024 * k : k \in 1..2560}

InitHelpers ==
    /\ strategy = "basic"
    /\ lib = "tracks"
    /\ env = [BUSINESS_HOURS_START |-> 9, BUSINESS_HOURS_END |-> 17]
    /\ st = NewStrategyState
    /\ pc = "idle"
    /\ todo = <<>>
    /\ recommendations = <<>>
    /\ error = <<>>
    /\ usages = <<>>
    /\ raw = <<>>
    /\ call = NoCall
    /\ manifest = NoManifest

Answered(op, args, result, raised) ==
    /\ call' = [op |-> op, args |-> args, result |-> result]
    /\ pc' = IF raised THEN "raised" ELSE "returned"
    /\ UNCHANGED <<manifest, strategy, lib, env, st, todo, recommendations, error, usages, raw>>

DetermineSeverityCall ==
    /\ pc = "idle"
    /\ \E current \in Amounts, recommended \in Amounts :
            Answered("_determine_severity", <<current, recommended>>,
                     DetermineSeverity(current, recommended),
                     DetermineSeverity(current, recommended) = "raise")

CalculateCpuLimitCall ==
    /\ pc = "idle"
    /\ \E cpu_request \in CpuRequests :
            Answered("_calculate_cpu_limit", <<cpu_request>>,
                     CalculateCpuLimit(cpu_request), FALSE)

CalculateMemoryLimitCall ==
    /\ pc = "idle"
    /\ \E memory_request \in MemoryRequests :
            Answered("_calculate_memory_limit", <<memory_request>>,
                     CalculateMemoryLimit(memory_request), FALSE)

NextHelpers == DetermineSeverityCall \/ CalculateCpuLimitCall \/ CalculateMemoryLimitCall

SpecHelpers == InitHelpers /\ [][NextHelpers]_vars

(***************************************************************************)
(* Any sequence of add_sample and get_quantile calls on one                *)
(* DecayingHistogram of capacity MaxSamples, which st holds here and which *)
(* starts empty with BasicStrategy's initial decay rate 0.1.  Timestamps   *)
(* come five minutes apart, in any order.                                  *)
(***************************************************************************)
MaxSamples == 2
Quantiles == {0, 500, 900, 950, 1000}

InitHistogram ==
    /\ strategy = "basic"
    /\ lib = "tracks"
    /\ env = [BUSINESS_HOURS_START |-> 9, BUSINESS_HOURS_END |-> 17]
    /\ st = NewHistogram(MaxSamples, 100)
    /\ pc = "idle"
    /\ todo = <<>>
    /\ recommendations = <<>>
    /\ error = <<>>
    /\ usages = <<>>
    /\ raw = <<>>
    /\ call = NoCall
    /\ manifest = NoManifest

AddSampleCall ==
    /\ \E value \in CpuVals, k \in 0..1 :
            /\ st' = AddSample(st, value, T0 + 300 * k).h
            /\ call' = [op |-> "add_sample", value |-> value,
                        timestamp |-> T0 + 300 * k, before |-> st,
                        raised |-> AddSample(st, value, T0 + 300 * k).raised]
    /\ UNCHANGED <<manifest, strategy, lib, env, pc, todo, recommendations, error, usages, raw>>

GetQuantileCall ==
    /\ \E q \in Quantiles :
            call' = [op |-> "get_quantile", q |-> q, result |-> GetQuantile(st, q)]
    /\ UNCHANGED <<manifest, strategy, lib, env, st, pc, todo, recommendations, error, usages, raw>>

NextHistogram == AddSampleCall \/ GetQuantileCall

SpecHistogram == InitHistogram /\ [][NextHistogram]_vars

(***************************************************************************)
(* update_manifest_with_new_resources (manifest_updater.py): the manifest  *)
(* is read line by line, then written back.  Reading may fail at any line. *)
(***************************************************************************)
Lines ==
    {<<>>, <<"resources:">>, <<"limits:">>, <<"requests:">>,
     <<"cpu:", "100m">>, <<"memory:", "128Mi">>, <<"image:", "app">>,
     <<"requests:", "{cpu:", "100m}">>, <<"name:", "cpu:", "x">>}

\* a container's section of a Deployment, and what follows the blank line
Deployment ==
    <<<<"resources:">>, <<"limits:">>, <<"cpu:", "100m">>, <<"memory:", "128Mi">>,
      <<"requests:">>, <<"cpu:", "100m">>, <<"memory:", "128Mi">>, <<>>,
      <<"memory:", "128Mi">>>>

InitManifest ==
    /\ strategy = "basic"
    /\ lib = "tracks"
    /\ env = [BUSINESS_HOURS_START |-> 9, BUSINESS_HOURS_END |-> 17]
    /\ st = NewStrategyState
    /\ pc = "scan"
    /\ todo = <<>>
    /\ recommendations = <<>>
    /\ error = <<>>
    /\ usages = <<>>
    /\ raw = <<>>
    /\ \E file \in SeqsUpTo(Lines, MaxLen) \cup {Deployment},
          new_limits \in {<<>>, [cpu |-> "500m", memory |-> "512Mi"],
                          [memory |-> "512Mi"]},
          new_requests \in {<<>>, [cpu |-> "250m", memory |-> "256Mi"],
                            [memory |-> "256Mi"]} :
            /\ manifest = [NoManifest EXCEPT !.file = file, !.unread = file]
            /\ call = [op |-> "update_manifest_with_new_resources", file |-> file,
                       new_limits |-> new_limits, new_requests |-> new_requests]

\* one turn of "for line in file"
ScanLine ==
    /\ pc = "scan"
    /\ manifest.unread # <<>>
    /\ Let(TrackSection(manifest, Head(manifest.unread)), LAMBDA m :
       Let(UpdateLine(m, Head(manifest.unread), call.new_limits, call.new_requests),
           LAMBDA updated :
               IF updated.raised
               THEN /\ pc' = "raised"
                    /\ manifest' = [m EXCEPT !.unread = Tail(manifest.unread)]
               ELSE /\ pc' = "scan"
                    /\ manifest' = [m EXCEPT
                           !.unread = Tail(manifest.unread),
                           !.updated_lines = Append(m.updated_lines, updated.line)]))
    /\ UNCHANGED <<strategy, lib, env, st, todo, recommendations, error, usages, raw, call>>

\* open(file_path, 'r') or the next read raises
ReadFails ==
    /\ pc = "scan"
    /\ manifest.unread # <<>> \/ manifest.updated_lines = <<>>
    /\ pc' = "raised"
    /\ UNCHANGED <<manifest, strategy, lib, env, st, todo, recommendations, error, usages,
                   raw, call>>

\* file.writelines(updated_lines)
WriteLines ==
    /\ pc = "scan"
    /\ manifest.unread = <<>>
    /\ pc' = "written"
    /\ manifest' = [manifest EXCEPT !.file = manifest.updated_lines]
    /\ UNCHANGED <<strategy, lib, env, st, todo, recommendations, error, usages, raw, call>>

NextManifest == ScanLine \/ ReadFails \/ WriteLines

SpecManifest == InitManifest /\ [][NextManifest]_vars

(***************************************************************************)
(* Properties of the records of generate_recommendations                   *)
(***************************************************************************)
\* C1: in every record of generate_recommendations, for each dimension, the
\* limit value is a number not below the request value, whatever the
\* strategy returned before validation (a number in or out of the bounds,
\* or nan).
LimitAtLeastRequest ==
    \A c \in DOMAIN recommendations : \A dim \in {"cpu", "memory"} :
        /\ IsNum(recommendations[c].requests[dim].value)
        /\ IsNum(recommendations[c].limits[dim].value)
        /\ recommendations[c].limits[dim].value >= recommendations[c].requests[dim].value

\* a record whose CPU value the strategy returned as nan
RecordOfNanValue ==
    \E c \in DOMAIN recommendations :
        /\ raw[c].cpu = NaN
        /\ recommendations[c].requests.cpu.value = MIN_CPU
        /\ recommendations[c].limits.cpu.value = 3 * MIN_CPU

\* C2: every request and limit value of a record lies within the policy
\* bounds, CPU in [0.01, 64] cores and memory in [32 MiB, 256 GiB]; a number
\* the strategy returned below the lower bound gives the lower bound, one
\* above the upper bound the upper bound, one within the bounds itself; and
\* no run ends by an exception of the validation.
WithinPolicyBounds ==
    /\ \A c \in DOMAIN recommendations : \A part \in {"requests", "limits"} :
            /\ recommendations[c][part].cpu.value \in MIN_CPU..MAX_CPU
            /\ recommendations[c][part].memory.value \in MIN_MEMORY..MAX_MEMORY
    /\ \A c \in DOMAIN recommendations :
            \A b \in {<<"cpu", MIN_CPU, MAX_CPU>>, <<"memory", MIN_MEMORY, MAX_MEMORY>>} :
                IsNum(raw[c][b[1]]) =>
                    recommendations[c].requests[b[1]].value =
                        IF raw[c][b[1]] < b[2] THEN b[2]
                        ELSE IF raw[c][b[1]] > b[3] THEN b[3]
                        ELSE raw[c][b[1]]
    /\ pc = "raised" =>
            error[2] \in {"get_historical_usage", "calculate_cpu_request",
                          "calculate_memory_request"}

\* a record whose CPU and memory values were both returned above the
\* upper bounds (the minima every strategy applies keep the returned numbers
\* at or above the lower bounds)
RecordOfClampedValues ==
    \E c \in DOMAIN recommendations :
        /\ raw[c].cpu > MAX_CPU
        /\ raw[c].memory > MAX_MEMORY
        /\ recommendations[c].requests.cpu.value = MAX_CPU
        /\ recommendations[c].requests.memory.value = MAX_MEMORY
        /\ recommendations[c].limits.cpu.value = MAX_CPU

\* C5: a failure of get_historical_usage or of the strategy for one
\* container does not abort generate_recommendations: the run never ends by
\* raising (it goes on to the other containers and reports the failure).
FailuresAreContained == pc # "raised"

\* C6: the record of every container is the record a new strategy instance
\* gives for that container's own usage alone, whichever containers the run
\* evaluated before it and whatever their samples were.
ContainersAreIndependent ==
    \A c \in DOMAIN recommendations :
        Let(Recommend(cfg, NewStrategyState, usages[c], lib), LAMBDA alone :
            ~alone.raised /\ alone.record = recommendations[c])

\* C7 as stated: every severity of every record is GOOD.
EverySeverityIsGood ==
    \A c \in DOMAIN recommendations :
        \A part \in {"requests", "limits"} : \A dim \in {"cpu", "memory"} :
            recommendations[c][part][dim].severity = "GOOD"

\* C7 as amended: every severity of every record is WARNING, the severity
\* rule being given an absent current value and a present recommended one.
EverySeverityIsWarning ==
    \A c \in DOMAIN recommendations :
        \A part \in {"requests", "limits"} : \A dim \in {"cpu", "memory"} :
            recommendations[c][part][dim].severity = "WARNING"

\* a finished run that returned the records of two containers
TwoRecordsReturned ==
    /\ pc = "done"
    /\ DOMAIN recommendations = {Visits[1], Visits[2]}
    /\ recommendations[Visits[1]].requests.cpu.value
            # recommendations[Visits[2]].requests.cpu.value

(***************************************************************************)
(* Properties of one strategy call                                         *)
(***************************************************************************)
\* C3: for every strategy and any timestamps, a call of
\* calculate_cpu_request / calculate_memory_request with an empty sample
\* series returns, without raising, exactly the configured minimum of the
\* dimension and leaves the strategy instance as it was.
EmptySamplesGiveMinimum ==
    (call.op = "calculate" /\ call.samples = <<>>) =>
        /\ ~call.raised
        /\ call.value = ConfigMin(cfg, call.dim)
        /\ st = call.before

\* an instance that served a container before, called with no samples but
\* with timestamps
EmptySamplesOnUsedInstance ==
    /\ call.op = "calculate"
    /\ call.samples = <<>>
    /\ call.timestamps # <<>>
    /\ call.before # NewStrategyState
    /\ pc = "returned"

\* C4: for every strategy and every non-empty sample series with as many
\* timestamps (a single sample included), the call returns, and what it
\* returns is a number >= 0 and >= the configured minimum.  Stated here for
\* the strategies that fit no library model, whose outcome the code alone
\* decides.
NonEmptySamplesGiveBoundedValue ==
    (/\ call.op = "calculate"
     /\ ~UsesLibrary(strategy)
     /\ call.samples # <<>>
     /\ Len(call.timestamps) = Len(call.samples)) =>
        /\ ~call.raised
        /\ IsNum(call.value)
        /\ call.value >= 0
        /\ call.value >= ConfigMin(cfg, call.dim)

\* C10: an ensemble call with non-empty samples and timestamps returns, also
\* when members raise: what it returns is the weighted combination in which
\* every member that raised stands with the configured minimum and every
\* other member with its own prediction, buffered and floored as usual; the
\* histogram of the member 'basic' has taken the samples.
EnsembleIsolatesFailures ==
    (/\ strategy = "ensemble"
     /\ call.op = "calculate"
     /\ call.samples # <<>>
     /\ call.timestamps # <<>>) =>
        Let(MemberOutcomes(cfg, call.dim, call.before, call.samples,
                           call.timestamps, lib),
            LAMBDA outcome :
                /\ ~call.raised
                /\ call.value =
                     PyMax(Scale(GetWeightedPrediction(
                                     [name \in MemberNames |->
                                         IF name \in FailedMembers(outcome)
                                         THEN ConfigMin(cfg, call.dim)
                                         ELSE outcome[name].value],
                                     call.before.weights, call.before.weight_den),
                                 SafetyFactor(cfg, call.dim), 100),
                           ConfigMin(cfg, call.dim))
                /\ HistogramOf(st, call.dim) = outcome["basic"].h)

\* an ensemble call in which some members raised and others predicted, and
\* the returned number is above the minimum: the others did count
EnsembleWithFailedMember ==
    /\ strategy = "ensemble"
    /\ call.op = "calculate"
    /\ call.samples # <<>>
    /\ call.timestamps # <<>>
    /\ Let(FailedMembers(MemberOutcomes(cfg, call.dim, call.before, call.samples,
                                        call.timestamps, lib)),
           LAMBDA failed : failed # {} /\ failed # MemberNames)
    /\ pc = "returned"
    /\ call.value > ConfigMin(cfg, call.dim)

TieredLimits ==
    /\ call.op = "_calculate_cpu_limit" =>
        LET request == call.args[1]
            limit == IF request < 100 THEN (request * 30) \div 10
                     ELSE IF request < 1000 THEN (request * 25) \div 10
                     ELSE request * 2
        IN  call.result = IF limit > 64000 THEN 64000
                          ELSE IF limit < 10 THEN 10 ELSE limit
    /\ call.op = "_calculate_memory_limit" =>
        LET request == call.args[1]
            limit == IF request < 256 * 10 THEN (request * 15) \div 10
                     ELSE (request * 13) \div 10
        IN  call.result = IF limit > 256 * 1024 * 10 THEN 256 * 1024 * 10
                          ELSE IF limit < 32 * 10 THEN 32 * 10 ELSE limit
    /\ \A example \in {<<50, 150>>, <<500, 1250>>, <<2000, 4000>>} :
        (call.op = "_calculate_cpu_limit" /\ call.args = <<example[1]>>)
            => call.result = example[2]
    /\ \A example \in {<<100 * 10, 150 * 10>>, <<1024 * 10, 13312>>} :
        (call.op = "_calculate_memory_limit" /\ call.args = <<example[1]>>)
            => call.result = example[2]

\* the limit of a request of 40 cores, which the upper bound cuts
LimitCutAtUpperBound ==
    /\ call.op = "_calculate_cpu_limit"
    /\ call.args = <<40000>>
    /\ call.result = MAX_CPU
    /\ pc = "returned"

(***************************************************************************)
(* Properties of the ensemble's construction                               *)
(***************************************************************************)
\* C11 as stated: a newly constructed ensemble holds one instance of every
\* strategy but itself (nine members) and one weight per member, the
\* weights equal and summing to 1.
NewEnsembleHoldsEveryStrategy ==
    (strategy = "ensemble" /\ pc = "start") =>
        /\ DOMAIN st.weights = Strategies \ {"ensemble"}
        /\ \A a, b \in DOMAIN st.weights : st.weights[a] = st.weights[b]
        /\ WeightedSum(st.weights, [name \in DOMAIN st.weights |-> 1],
                       DOMAIN st.weights) = st.weight_den

\* C11 as amended: a newly constructed ensemble holds one instance of each
\* of seven strategies (basic, time_aware, workload_aware, trend_aware,
\* quantile_regression, moving_average, prophet; neither adaptive nor
\* pmdarima) and one weight per member, the weights equal and summing to 1.
NewEnsembleHoldsSevenStrategies ==
    (strategy = "ensemble" /\ pc = "start") =>
        /\ Len(EnsembleMembers) = 7
        /\ DOMAIN st.weights =
              {"basic", "time_aware", "workload_aware", "trend_aware",
               "quantile_regression", "moving_average", "prophet"}
        /\ \A a, b \in DOMAIN st.weights : st.weights[a] = st.weights[b]
        /\ WeightedSum(st.weights, [name \in DOMAIN st.weights |-> 1],
                       DOMAIN st.weights) = st.weight_den

\* an optimizer just built around a new ensemble
EnsembleJustBuilt ==
    /\ strategy = "ensemble"
    /\ pc = "start"
    /\ st = NewStrategyState
    /\ recommendations = <<>>

(***************************************************************************)
(* Properties of the ensemble's blend                                      *)
(***************************************************************************)
\* C12: whatever weights a sequence of weight updates has left, an ensemble
\* call with non-empty samples and timestamps returns a number between the
\* smallest and the largest member prediction, each times the multiplier
\* applied after blending (1.10 for CPU, memory_buffer for memory), a member
\* that raised counting with the configured minimum.  Stated here for
\* libraries that do not predict nan.
EnsembleWithinMemberRange ==
    (/\ strategy = "ensemble"
     /\ lib # "nan"
     /\ call.op = "calculate"
     /\ call.samples # <<>>
     /\ call.timestamps # <<>>) =>
        Let(EnsemblePredictions(cfg, call.dim, call.before, call.samples,
                                call.timestamps, lib).predictions,
            LAMBDA predictions :
                /\ ~call.raised
                /\ IsNum(call.value)
                /\ \E lowest \in MemberNames, highest \in MemberNames :
                    /\ IsNum(predictions[lowest]) /\ IsNum(predictions[highest])
                    /\ Scale(predictions[lowest], SafetyFactor(cfg, call.dim), 100)
                            <= call.value
                    /\ call.value
                            <= Scale(predictions[highest], SafetyFactor(cfg, call.dim), 100))

(***************************************************************************)
(* Properties of the DecayingHistogram                                     *)
(***************************************************************************)
\* C13: on a histogram that stores at least one sample, get_quantile(q) does
\* not decrease as q grows over [0, 1], get_quantile(0.0) is the smallest
\* stored value and get_quantile(1.0) the largest.
QuantileIsMonotoneBetweenExtremes ==
    (call.op = "get_quantile" /\ st.samples # <<>>) =>
        /\ \A q \in Quantiles : q >= call.q => GetQuantile(st, q) >= call.result
        /\ call.q = 0 =>
            \A i \in 1..Len(st.samples) : call.result <= st.samples[i].value
        /\ call.q = 1000 =>
            \A i \in 1..Len(st.samples) : call.result >= st.samples[i].value

\* C14: after any sequence of add_sample calls the histogram stores at most
\* max_samples samples.
StoredSamplesWithinCapacity ==
    Len(st.samples) <= st.max_samples

\* an add_sample on a histogram that was full already
SampleAddedToFullHistogram ==
    /\ call.op = "add_sample"
    /\ ~call.raised
    /\ Len(call.before.samples) = call.before.max_samples
    /\ Len(st.samples) = st.max_samples

AdaptiveSpikeTakesWeightedAverage ==
    (/\ strategy = "adaptive"
     /\ call.op = "calculate"
     /\ call.dim = "memory"
     /\ call.samples = Scenario.memory) =>
        /\ ~call.raised
        /\ MaxSeq(call.samples) > 2 * Percentile(call.samples, 95)
        /\ call.value = PyMax(cfg.min_memory_bytes,
                              Scale((7 * MaxSeq(call.samples)
                                        + 3 * Percentile(call.samples, 95)) \div 10,
                                    cfg.memory_buffer, 100))

(***************************************************************************)
(* Properties of the model-fitting strategies                              *)
(***************************************************************************)
\* C17: when the fit or the prediction fails on non-empty samples and
\* timestamps, the autoregressive (pmdarima) and the seasonal (prophet)
\* strategy raise nothing and return max(min_cpu_cores, p95(samples) x 1.1)
\* for CPU, max(min_memory_bytes, max(samples) x memory_buffer) for memory.
ForecastFailureFallsBack ==
    (/\ strategy \in {"pmdarima", "prophet"}
     /\ call.op = "calculate"
     /\ call.samples # <<>>
     /\ call.timestamps # <<>>
     /\ LibFails(lib, call.samples)) =>
        /\ ~call.raised
        /\ call.dim = "cpu" =>
            call.value = PyMax(cfg.min_cpu_cores,
                               Scale(Percentile(call.samples, 95), 110, 100))
        /\ call.dim = "memory" =>
            call.value = PyMax(cfg.min_memory_bytes,
                               Scale(MaxSeq(call.samples), cfg.memory_buffer, 100))

\* the autoregressive strategy has answered a call whose fit failed with a
\* fallback value above the configured minimum
ForecastFellBack ==
    /\ strategy = "pmdarima"
    /\ lib = "fails"
    /\ call.op = "calculate"
    /\ call.dim = "cpu"
    /\ call.samples = <<5, 500>>
    /\ call.timestamps # <<>>
    /\ ~call.raised
    /\ call.value > cfg.min_cpu_cores

\* C18: when a per-quantile fit or prediction fails on non-empty samples and
\* timestamps, the quantile-regression strategy catches the failure and
\* returns a number; no exception reaches the caller.
QuantileRegressionFailureIsCaught ==
    (/\ strategy = "quantile_regression"
     /\ call.op = "calculate"
     /\ call.samples # <<>>
     /\ call.timestamps # <<>>
     /\ LibFails(lib, call.samples)) =>
        /\ ~call.raised
        /\ IsNum(call.value)

(***************************************************************************)
(* Properties of the configuration in main                                 *)
(***************************************************************************)
\* C19: with a selector that has no strategy class (the enum member
\* PERCENTILE) create_strategy raises in main before the optimizer is
\* built: no deployment is listed, no metrics are queried and no strategy is
\* evaluated for any container.
UnknownSelectorStopsMain ==
    strategy \notin Strategies =>
        /\ pc \in {"main", "raised"}
        /\ pc = "raised" => error = <<"main", "create_strategy">>
        /\ todo = <<>>
        /\ usages = <<>>
        /\ raw = <<>>
        /\ recommendations = <<>>

\* main has ended on create_strategy's ValueError for the selector PERCENTILE
CreateStrategyRaised ==
    /\ strategy = "percentile"
    /\ pc = "raised"
    /\ error = <<"main", "create_strategy">>
    /\ recommendations = <<>>

\* C20: a configuration with inverted bounds (here business_hours_start >=
\* business_hours_end) is rejected before any container is evaluated: no
\* recommendation is ever computed under it.
InvertedBoundsAreRejected ==
    cfg.business_hours_start >= cfg.business_hours_end =>
        /\ usages = <<>>
        /\ raw = <<>>
        /\ recommendations = <<>>
(***************************************************************************)
(* Properties of the samples a DecayingHistogram stores                    *)
(***************************************************************************)
\* C21: add_sample on a histogram that holds max_samples samples keeps the
\* max_samples most important of the stored samples and the new one: no
\* sample that was dropped is more important than a sample that was kept.
LeastImportantSampleIsDropped ==
    (/\ call.op = "add_sample"
     /\ ~call.raised
     /\ Len(call.before.samples) = call.before.max_samples) =>
        \A i \in 1..Len(call.before.samples) :
            (\A k \in 1..Len(st.samples) : st.samples[k] # call.before.samples[i]) =>
                \A k \in 1..Len(st.samples) :
                    call.before.samples[i].importance <= st.samples[k].importance

\* C22: after add_sample calls made in non-decreasing timestamp order every
\* stored sample has weight in (0, 1] (a logarithm that is finite and at most
\* 0) and importance in (0, 1]; the first sample of an empty histogram has
\* weight 1.0 and importance 1.0.
ChronologicalWeightsWithinUnit ==
    (\A i \in 1..(Len(st.samples) - 1) :
        st.samples[i].timestamp <= st.samples[i + 1].timestamp) =>
        /\ \A i \in 1..Len(st.samples) :
            /\ st.samples[i].logw # LogZero
            /\ st.samples[i].logw <= 0
            /\ st.samples[i].importance > 0
            /\ st.samples[i].importance <= 1000
        /\ (call.op = "add_sample" /\ call.before.samples = <<>>) =>
            /\ st.samples[1].logw = 0
            /\ st.samples[1].importance = 1000

(***************************************************************************)
(* Properties of the ensemble's weights                                    *)
(***************************************************************************)
\* C23 as stated: after any sequence of ensemble operations there is one
\* weight per member, every weight is in [0, 1] and the weights sum to 1; a
\* calculation leaves the weights alone; _update_weights sets each weight to
\* (1 - error / sum of errors) divided by the sum of these, and changes
\* nothing when the sum of the errors is 0.  With E the sum of the
\* |pred - actual|, the sum of the errors is E / actual (E for actual = 0)
\* and error / sum of errors is |pred - actual| / E.
WeightsFollowEveryUpdate ==
    /\ DOMAIN st.weights = MemberNames
    /\ \A name \in MemberNames : 0 <= st.weights[name] /\ st.weights[name] <= st.weight_den
    /\ WeightedSum(st.weights, [name \in MemberNames |-> 1], MemberNames) = st.weight_den
    /\ call.op = "calculate" =>
        st.weights = call.before.weights /\ st.weight_den = call.before.weight_den
    /\ call.op = "_update_weights" =>
        Let(WeightedSum([name \in MemberNames |-> Abs(call.predictions[name] - call.actual)],
                        [name \in MemberNames |-> 1], MemberNames),
            LAMBDA E :
                IF E # 0
                THEN \A name \in MemberNames :
                        st.weights[name] * (Cardinality(MemberNames) - 1) * E
                            = (E - Abs(call.predictions[name] - call.actual)) * st.weight_den
                ELSE st.weights = call.before.weights
                        /\ st.weight_den = call.before.weight_den)

\* C23 as amended: the same, but _update_weights changes nothing either when
\* the sum of the errors is negative, that is for a negative actual.
WeightsFollowUpdatesOfPositiveError ==
    /\ DOMAIN st.weights = MemberNames
    /\ \A name \in MemberNames : 0 <= st.weights[name] /\ st.weights[name] <= st.weight_den
    /\ WeightedSum(st.weights, [name \in MemberNames |-> 1], MemberNames) = st.weight_den
    /\ call.op = "calculate" =>
        st.weights = call.before.weights /\ st.weight_den = call.before.weight_den
    /\ call.op = "_update_weights" =>
        Let(WeightedSum([name \in MemberNames |-> Abs(call.predictions[name] - call.actual)],
                        [name \in MemberNames |-> 1], MemberNames),
            LAMBDA E :
                IF E > 0 /\ call.actual >= 0
                THEN \A name \in MemberNames :
                        st.weights[name] * (Cardinality(MemberNames) - 1) * E
                            = (E - Abs(call.predictions[name] - call.actual)) * st.weight_den
                ELSE st.weights = call.before.weights
                        /\ st.weight_den = call.before.weight_den)

\* _update_weights has taken the whole weight of a member that was wrong
\* while the others were right
WeightsWereUpdated ==
    /\ call.op = "_update_weights"
    /\ call.actual = 10
    /\ call.predictions["basic"] = 20
    /\ st.weights["basic"] = 0
    /\ call.before.weights["basic"] > 0

EndHourIsOutsideBusinessWindow ==
    (/\ call.op = "calculate"
     /\ call.samples # <<>>
     /\ Len(call.samples) = Len(call.timestamps)
     /\ \/ strategy = "time_aware"
        \/ /\ strategy = "adaptive"
           /\ call.dim = "cpu"
           /\ ~RatioAbove(Percentile(call.samples, 99), Percentile(call.samples, 95), 20))
    => Let(IF strategy = "time_aware"
           THEN TimeAwarePatterns(cfg, call.samples, call.timestamps)
           ELSE AdaptivePatterns(cfg, call.samples, call.timestamps),
           LAMBDA buckets :
               /\ Len(buckets.business_hours) + Len(buckets.non_business)
                      = Len(call.samples)
               /\ (\A i \in 1..Len(call.timestamps) :
                       HourOf(IF strategy = "time_aware"
                              THEN ToBerlin(call.timestamps[i])
                              ELSE call.timestamps[i]) = cfg.business_hours_end)
                  => buckets.business_hours = <<>>)

\* C26: on a non-empty series with p99/p95 <= 2 whose samples all fall
\* outside the business window, AdaptiveStrategy.calculate_cpu_request
\* returns max(min_cpu_cores, overall p95 x 1.1).
AdaptiveOffHoursUsesOverallP95 ==
    (/\ call.op = "calculate"
     /\ strategy = "adaptive"
     /\ call.dim = "cpu"
     /\ call.samples # <<>>
     /\ Len(call.samples) = Len(call.timestamps)
     /\ ~RatioAbove(Percentile(call.samples, 99), Percentile(call.samples, 95), 20)
     /\ AdaptivePatterns(cfg, call.samples, call.timestamps).business_hours = <<>>)
    => /\ ~call.raised
       /\ call.value = PyMax((Percentile(call.samples, 95) * 11) \div 10,
                             cfg.min_cpu_cores)

(***************************************************************************)
(* Properties of the trend-aware strategy                                  *)
(***************************************************************************)
\* C27 as stated: a series of at least two samples is classified as one of
\* volatile, increasing, decreasing, stable, volatile first; a volatile
\* series gets percentile base x 1.2 (CPU) and peak x 1.3 (memory), a
\* decreasing or stable one base x 1.1 and peak x memory_buffer.
VolatileMemoryIsPeakTimesFixedBuffer ==
    (/\ call.op = "calculate"
     /\ strategy = "trend_aware"
     /\ ~call.raised
     /\ Len(call.samples) >= 2
     /\ Len(call.samples) = Len(call.timestamps))
    => Let(TrendAnalyze(cfg, call.samples, call.timestamps), LAMBDA analysis :
           /\ analysis.trend \in {"volatile", "increasing", "decreasing", "stable"}
           /\ CappedVolatility(Reduced(call.samples)) > cfg.high_variance_threshold
                  => analysis.trend = "volatile"
           /\ (analysis.trend = "volatile" /\ call.dim = "cpu")
                  => call.value = PyMax((Percentile(call.samples, cfg.cpu_percentile) * 12)
                                            \div 10,
                                        cfg.min_cpu_cores)
           /\ (analysis.trend = "volatile" /\ call.dim = "memory")
                  => call.value = PyMax((MaxSeq(call.samples) * 13) \div 10,
                                        cfg.min_memory_bytes)
           /\ (analysis.trend \in {"decreasing", "stable"} /\ call.dim = "cpu")
                  => call.value = PyMax((Percentile(call.samples, cfg.cpu_percentile) * 11)
                                            \div 10,
                                        cfg.min_cpu_cores)
           /\ (analysis.trend \in {"decreasing", "stable"} /\ call.dim = "memory")
                  => call.value = PyMax((MaxSeq(call.samples) * cfg.memory_buffer) \div 100,
                                        cfg.min_memory_bytes))

\* C27, amended: as above, the memory request of a volatile series being
\* peak x 1.3 x memory_buffer (1.3 replaces the growth factor only).
VolatileMemoryKeepsMemoryBuffer ==
    (/\ call.op = "calculate"
     /\ strategy = "trend_aware"
     /\ ~call.raised
     /\ Len(call.samples) >= 2
     /\ Len(call.samples) = Len(call.timestamps))
    => Let(TrendAnalyze(cfg, call.samples, call.timestamps), LAMBDA analysis :
           /\ analysis.trend \in {"volatile", "increasing", "decreasing", "stable"}
           /\ CappedVolatility(Reduced(call.samples)) > cfg.high_variance_threshold
                  => analysis.trend = "volatile"
           /\ (analysis.trend = "volatile" /\ call.dim = "cpu")
                  => call.value = PyMax((Percentile(call.samples, cfg.cpu_percentile) * 12)
                                            \div 10,
                                        cfg.min_cpu_cores)
           /\ (analysis.trend = "volatile" /\ call.dim = "memory")
                  => call.value = PyMax((((MaxSeq(call.samples) * 13) \div 10)
                                             * cfg.memory_buffer) \div 100,
                                        cfg.min_memory_bytes)
           /\ (analysis.trend \in {"decreasing", "stable"} /\ call.dim = "cpu")
                  => call.value = PyMax((Percentile(call.samples, cfg.cpu_percentile) * 11)
                                            \div 10,
                                        cfg.min_cpu_cores)
           /\ (analysis.trend \in {"decreasing", "stable"} /\ call.dim = "memory")
                  => call.value = PyMax((MaxSeq(call.samples) * cfg.memory_buffer) \div 100,
                                        cfg.min_memory_bytes))

\* a volatile memory series whose growth rate also exceeds the trend threshold
VolatileMemorySeriesAnswered ==
    /\ call.op = "calculate"
    /\ strategy = "trend_aware"
    /\ call.dim = "memory"
    /\ ~call.raised
    /\ Len(call.samples) >= 2
    /\ Len(call.samples) = Len(call.timestamps)
    /\ TrendAnalyze(cfg, call.samples, call.timestamps).trend = "volatile"
    /\ TrendAnalyze(cfg, call.samples, call.timestamps).growth_rate
           > cfg.trend_threshold * 1000
    /\ call.value > cfg.min_memory_bytes

(***************************************************************************)
(* Properties of the usage handed to the strategy                          *)
(***************************************************************************)
\* C28: for every container, the usage returned by get_historical_usage and
\* passed to the strategy has as many CPU samples as timestamps and as many
\* memory samples as timestamps.
UsageArraysMatchTimestamps ==
    \A container \in DOMAIN usages :
        /\ Len(usages[container].cpu_samples) = Len(usages[container].timestamps)
        /\ Len(usages[container].memory_samples) = Len(usages[container].timestamps)

(***************************************************************************)
(* Properties of the order of the limits                                   *)
(***************************************************************************)
\* C29 as stated: the limit derivations are monotone in the validated
\* request, across the tier boundaries too (each request is compared with
\* the next smaller one of the requests tried; the relation is transitive).
LimitsAreMonotone ==
    /\ call.op = "_calculate_cpu_limit" =>
           \A r1 \in {call.args[1] - 1, call.args[1] - 1000} \cap CpuRequests :
               CalculateCpuLimit(r1) <= call.result
    /\ call.op = "_calculate_memory_limit" =>
           \A r1 \in {call.args[1] - 1, call.args[1] - 1024} \cap MemoryRequests :
               CalculateMemoryLimit(r1) <= call.result

\* C29, amended: the limit derivations are monotone in the validated request
\* within each tier (below 0.1 core, below 1 core, from 1 core; below
\* 256 MiB, from 256 MiB).
LimitsAreMonotoneWithinTier ==
    /\ call.op = "_calculate_cpu_limit" =>
           \A r1 \in {call.args[1] - 1, call.args[1] - 1000} \cap CpuRequests :
               (/\ (r1 < SMALL_CPU) = (call.args[1] < SMALL_CPU)
                /\ (r1 < MEDIUM_CPU) = (call.args[1] < MEDIUM_CPU))
               => CalculateCpuLimit(r1) <= call.result
    /\ call.op = "_calculate_memory_limit" =>
           \A r1 \in {call.args[1] - 1, call.args[1] - 1024} \cap MemoryRequests :
               ((r1 < SMALL_MEMORY) = (call.args[1] < SMALL_MEMORY))
               => CalculateMemoryLimit(r1) <= call.result

\* the limit of a request in the middle tier, above the limit of the request
\* just below it in the same tier
LimitGrewWithinTier ==
    /\ call.op = "_calculate_cpu_limit"
    /\ call.args[1] > SMALL_CPU
    /\ call.args[1] < MEDIUM_CPU
    /\ call.result > CalculateCpuLimit(call.args[1] - 1)

(***************************************************************************)
(* Properties of update_manifest_with_new_resources                        *)
(***************************************************************************)
\* C30: the flags in_limits and in_requests are never both set and imply
\* in_resources; the file on disk keeps its content until the scan has
\* completed, and stays as it was if the scan raises; the number of lines is
\* preserved; a line that differs from the one read holds 'cpu:' or
\* 'memory:', was read with in_limits or in_requests set, and carries the
\* new limit or the new request of that key; every other line is written
\* back unchanged.
OnlyResourceValuesAreRewritten ==
    /\ [](call.op = "update_manifest_with_new_resources" =>
            /\ ~(manifest.in_limits /\ manifest.in_requests)
            /\ (manifest.in_limits \/ manifest.in_requests) => manifest.in_resources
            /\ pc \in {"scan", "raised"} => manifest.file = call.file
            /\ pc = "scan" =>
                   Len(manifest.updated_lines) + Len(manifest.unread) = Len(call.file)
            /\ pc = "written" =>
                   /\ manifest.file = manifest.updated_lines
                   /\ Len(manifest.file) = Len(call.file)
            /\ \A i \in 1..Len(manifest.updated_lines) :
                   \/ manifest.updated_lines[i] = call.file[i]
                   \/ HasKey(call.file[i], "cpu:")
                   \/ HasKey(call.file[i], "memory:"))
    /\ [][(/\ call.op = "update_manifest_with_new_resources"
           /\ Len(manifest'.updated_lines) = Len(manifest.updated_lines) + 1
           /\ manifest'.updated_lines[Len(manifest'.updated_lines)]
                  # call.file[Len(manifest'.updated_lines)])
          => \E key \in {"cpu", "memory"} :
                Let(call.file[Len(manifest'.updated_lines)], LAMBDA line :
                Let(IF key = "cpu" THEN "cpu:" ELSE "memory:", LAMBDA word :
                    /\ HasKey(line, word)
                    /\ \/ /\ manifest'.in_limits
                          /\ key \in DOMAIN call.new_limits
                          /\ manifest'.updated_lines[Len(manifest'.updated_lines)]
                                 = SubSeq(line, 1, Len(manifest'.updated_lines
                                                [Len(manifest'.updated_lines)]) - 2)
                                   \o <<word, call.new_limits[key]>>
                       \/ /\ manifest'.in_requests
                          /\ key \in DOMAIN call.new_requests
                          /\ manifest'.updated_lines[Len(manifest'.updated_lines)]
                                 = SubSeq(line, 1, Len(manifest'.updated_lines
                                                [Len(manifest'.updated_lines)]) - 2)
                                   \o <<word, call.new_requests[key]>>))]_vars

\* the Deployment written back with new limits and new requests
DeploymentWrittenBack ==
    /\ call.op = "update_manifest_with_new_resources"
    /\ pc = "written"
    /\ call.file = Deployment
    /\ manifest.file
           = <<<<"resources:">>, <<"limits:">>, <<"cpu:", "500m">>, <<"memory:", "512Mi">>,
               <<"requests:">>, <<"cpu:", "250m">>, <<"memory:", "256Mi">>, <<>>,
               <<"memory:", "128Mi">>>>
====
